---- MODULE Spec2Model ----
(***************************************************************************)
(* TruckHub (paretti/FoodTruckPro): the record store behind the REST       *)
(* routes of server/routes.ts and server/storage.ts, and the client-side   *)
(* derived values (low stock, protein usage, rating distribution, order    *)
(* item formatting).                                                       *)
(*                                                                         *)
(* JavaScript values are tagged records [t |-> tag, v |-> payload];        *)
(* JavaScript strings are TLA+ strings, so parsing and formatting are      *)
(* done character by character.  Money columns are decimal(10,2): the      *)
(* store keeps the canonical text PostgreSQL returns ("12.50").            *)
(***************************************************************************)
EXTENDS Integers, Sequences, FiniteSets, TLC

VARIABLES
  orders,        \* rows of table orders, in insertion order
  reviews,       \* rows of table reviews, in insertion order
  locations,     \* rows of table locations, in insertion order
  nextLocationId,\* serial of locations.id (rows can be deleted)
  today,         \* calendar day of the server clock
  res,           \* status code of the last HTTP response (0: none yet)
  inventory,     \* Inventory/Dashboard page: the list fetched from /api/inventory
  lowStockItems, \* Inventory/Dashboard page: the items shown as low stock
  protein,       \* ProteinInventory page: the record of the card being rendered
  usagePercent,  \* ProteinInventory page: usage shown on the card
  isLow,         \* ProteinInventory page: whether the card carries the Low badge
  items,         \* RecentOrders: the items value of the order being rendered
  formatted,     \* RecentOrders: outcome of formatOrderItems(items)
  rendered,      \* whether the page has rendered its input
  foodTruck,     \* client: id of the signed-in user's truck (GET /api/food-truck)
  cache,         \* client: the query cache, one entry for each query key
  pending,       \* client: the mutation whose response has not been handled yet
  served,        \* client: what the last useQuery read was answered with
  issued,        \* client: number of mutations issued so far
  viteApiBaseUrl,\* client build: import.meta.env.VITE_API_BASE_URL
  apiCall,       \* client: the last call of getApiUrl and what it returned
  organizations, \* rows of table organizations, in insertion order
  foodTrucks,    \* rows of table food_trucks, in insertion order
  inflight,      \* POST /api/food-truck requests between two awaits
  lastDone,      \* the last answered tenant request: status, and whether it inserted
  statsCall,     \* a getDashboardStats call: where it stands and what it has read
  seen,          \* the stats of every state of the store during that call
  caller,        \* req.user.claims.sub of the last request; NoSession without one
  teamMembers,   \* rows of table team_members, in insertion order
  proteinInventory, \* rows of table protein_inventory, in insertion order
  inventoryItems, \* rows of table inventory_items
  autocomplete,  \* Locations page: the address field, its timer, lookups and suggestions
  animation      \* ReviewSubmissionAnimation: props, stage, pending timers

storeVars == <<orders, reviews, locations, nextLocationId, today, res>>

pageVars ==
  <<inventory, lowStockItems, protein, usagePercent, isLow, items, formatted, rendered>>

clientVars == <<foodTruck, cache, pending, served, issued>>

configVars == <<viteApiBaseUrl, apiCall>>

tenantVars == <<organizations, foodTrucks, inflight, lastDone>>

statsVars == <<statsCall, seen>>

(***************************************************************************)
(* Bounds of the model.                                                    *)
(***************************************************************************)
MaxOrders == 2
MaxReviews == 4
MaxLocations == 3
MaxDay == 1

MaxItems == 2
MaxLines == 2
\* orders of one truck, one more than a page of the order list
MaxListedOrders == 51
\* mutations one client issues
MaxMutations == 3
\* longest configured base URL and longest endpoint built from single characters
MaxBaseLen == 2
\* most rows of organizations and of food_trucks
MaxOrganizations == 2
MaxTrucks == 2
\* most rows of team_members
MaxTeamMembers == 2
MaxEndpointLen == 3
\* most changes of the address field, and most address lookups in flight
MaxKeystrokes == 3
MaxLookups == 2
\* most renders of ReviewSubmissionAnimation with a new onComplete function
MaxRenders == 6

\* the trucks whose records the requests name
TruckIds == {1, 2}

NoStatsCall ==
  [pc |-> "idle", truckId |-> 0, todaySales |-> 0, ordersToday |-> 0,
   averageRating |-> 0, activeLocations |-> 0]

(***************************************************************************)
(* JavaScript values.                                                      *)
(***************************************************************************)
Num(n) == [t |-> "num", v |-> n]
Str(s) == [t |-> "str", v |-> s]
Bool(b) == [t |-> "bool", v |-> b]
Null == [t |-> "null", v |-> 0]
Undefined == [t |-> "undefined", v |-> 0]
Arr(elements) == [t |-> "array", v |-> elements]
\* an object is the sequence of its <<key, value>> members
Obj(members) == [t |-> "object", v |-> members]

IsNum(x) == x.t = "num"
IsStr(x) == x.t = "str"
IsBool(x) == x.t = "bool"
IsNullish(x) == x.t \in {"null", "undefined"}
IsUndefined(x) == x.t = "undefined"

(***************************************************************************)
(* Decimal text.                                                           *)
(***************************************************************************)
Digits == <<"0", "1", "2", "3", "4", "5", "6", "7", "8", "9">>

IsDigit(c) == \E i \in 1..10 : Digits[i] = c

DigitVal(c) == (CHOOSE i \in 1..10 : Digits[i] = c) - 1

RECURSIVE AllDigits(_)
AllDigits(s) == IF s = "" THEN TRUE ELSE IsDigit(Head(s)) /\ AllDigits(Tail(s))

RECURSIVE DigitsVal(_, _)
DigitsVal(s, acc) ==
  IF s = "" THEN acc ELSE DigitsVal(Tail(s), 10 * acc + DigitVal(Head(s)))

RECURSIVE IndexOf(_, _, _)
\* position of the first occurrence of character c in s at or after i, 0 if none
IndexOf(s, c, i) ==
  IF i > Len(s) THEN 0
  ELSE IF SubSeq(s, i, i) = c THEN i ELSE IndexOf(s, c, i + 1)

\* s is [-]digits[.digits] with at least one digit before the point
IsDecimalText(s) ==
  LET body == IF s # "" /\ Head(s) = "-" THEN Tail(s) ELSE s
      dot == IndexOf(body, ".", 1)
      ip == IF dot = 0 THEN body ELSE SubSeq(body, 1, dot - 1)
      fp == IF dot = 0 THEN "" ELSE SubSeq(body, dot + 1, Len(body))
  IN  /\ ip # ""
      /\ AllDigits(ip)
      /\ AllDigits(fp)
      /\ (dot # 0 => fp # "")

\* value of decimal text in hundredths, for text with at most two decimals
Cents(s) ==
  LET neg == s # "" /\ Head(s) = "-"
      body == IF neg THEN Tail(s) ELSE s
      dot == IndexOf(body, ".", 1)
      ip == IF dot = 0 THEN body ELSE SubSeq(body, 1, dot - 1)
      fp == IF dot = 0 THEN "" ELSE SubSeq(body, dot + 1, Len(body))
      fp2 == IF Len(fp) = 0 THEN "00" ELSE IF Len(fp) = 1 THEN fp \o "0" ELSE fp
      mag == 100 * DigitsVal(ip, 0) + DigitsVal(fp2, 0)
  IN  IF neg THEN 0 - mag ELSE mag

FracDigits(s) ==
  LET dot == IndexOf(s, ".", 1) IN IF dot = 0 THEN 0 ELSE Len(s) - dot

\* the text PostgreSQL returns for a numeric(10,2) holding c hundredths
FormatCents(c) ==
  LET mag == IF c < 0 THEN 0 - c ELSE c
      fr == mag % 100
  IN  (IF c < 0 THEN "-" ELSE "") \o ToString(mag \div 100) \o "."
        \o (IF fr < 10 THEN "0" ELSE "") \o ToString(fr)

(***************************************************************************)
(* storage.getDashboardStats.  todaySales is in hundredths, averageRating  *)
(* in tenths (the value returned is Math.round(mean * 10) / 10).           *)
(***************************************************************************)
RECURSIVE Reduce(_, _, _)
\* Array.prototype.reduce((sum, x) => sum + f(x), acc)
Reduce(f(_), seq, acc) ==
  IF seq = <<>> THEN acc ELSE Reduce(f, Tail(seq), acc + f(Head(seq)))

\* Number(text) of numeric(10,2) text, in hundredths
NumberOfAmount(text) == Cents(text)

\* Math.round(p / q) for q > 0: the nearest integer, ties towards +Infinity
MathRound(p, q) == (2 * p + q) \div (2 * q)

\* select().from(orders).where(and(eq(truckId), eq(status, 'completed')))
todayOrdersDayFiltered(truckId) ==
  SelectSeq(orders, LAMBDA o : o.truckId = truckId /\ o.status = "completed"
                               /\ o.createdAt = today)

todayOrders(truckId) ==
  SelectSeq(orders, LAMBDA o : o.truckId = truckId /\ o.status = "completed")

\* select().from(reviews).where(eq(reviews.truckId, truckId))
reviewList(truckId) == SelectSeq(reviews, LAMBDA r : r.truckId = truckId)

\* select().from(locations).where(and(eq(truckId), eq(isActive, true)))
activeLocationsListNotFalse(truckId) ==
  SelectSeq(locations, LAMBDA l : l.truckId = truckId /\ l.isActive # Bool(FALSE))

activeLocationsList(truckId) ==
  SelectSeq(locations, LAMBDA l : l.truckId = truckId /\ l.isActive = Bool(TRUE))

\* as getDashboardStats, but with the orders of the server's current day
getDashboardStatsOfToday(truckId) ==
  LET amount(o) == NumberOfAmount(o.totalAmount)
      rating(r) == r.rating
      n == Len(reviewList(truckId))
  IN  [todaySales |-> Reduce(amount, todayOrdersDayFiltered(truckId), 0),
       ordersToday |-> Len(todayOrdersDayFiltered(truckId)),
       averageRating |-> IF n > 0
                         THEN MathRound(10 * Reduce(rating, reviewList(truckId), 0), n)
                         ELSE 0,
       activeLocations |-> Len(activeLocationsList(truckId))]

getDashboardStats(truckId) ==
  LET amount(o) == NumberOfAmount(o.totalAmount)
      rating(r) == r.rating
      n == Len(reviewList(truckId))
  IN  [todaySales |-> Reduce(amount, todayOrders(truckId), 0),
       ordersToday |-> Len(todayOrders(truckId)),
       averageRating |-> IF n > 0
                         THEN MathRound(10 * Reduce(rating, reviewList(truckId), 0), n)
                         ELSE 0,
       activeLocations |-> Len(activeLocationsList(truckId))]

\* a write to the store under a running stats call: the store's new state is
\* one more state the call overlaps
Observed ==
  seen' = IF statsCall.pc \in {"reviews", "locations"}
          THEN seen \cup {getDashboardStats(statsCall.truckId)'}
          ELSE seen

(***************************************************************************)
(* Table orders (shared/schema.ts) and its insert schema.  A row keeps     *)
(* truckId, totalAmount (canonical numeric(10,2) text), status and         *)
(* createdAt (the day of defaultNow()).  orderNumber, customerName, items  *)
(* and locationId are not read by any operation modelled here; request     *)
(* bodies are taken to carry a fresh orderNumber.                          *)
(***************************************************************************)
\* a JSON array standing for the items column of a request body
JsonItems == [t |-> "array", v |-> <<>>]

\* bodies of POST /api/orders: the well-formed ones and one malformed body
\* for each way a body is refused
OrderBodies ==
  [truckId : {Num(k) : k \in TruckIds},
   totalAmount : {Str("12.50"), Str("-5")},
   status : {Undefined, Str("completed"), Str("cancelled")},
   items : {JsonItems}]
  \cup
  {[truckId |-> Undefined, totalAmount |-> Str("12.50"), status |-> Undefined,
    items |-> JsonItems],
   [truckId |-> Num(1), totalAmount |-> Str("abc"), status |-> Undefined,
    items |-> JsonItems],
   [truckId |-> Num(1), totalAmount |-> Str("12.50"), status |-> Num(1),
    items |-> JsonItems],
   [truckId |-> Num(1), totalAmount |-> Str("12.50"), status |-> Undefined,
    items |-> Undefined]}

\* bodies of PUT /api/orders/:id (partial rows): the empty body, one column,
\* all columns, and one malformed body for each way a body is refused
NoOrderColumns ==
  [truckId |-> Undefined, totalAmount |-> Undefined, status |-> Undefined,
   items |-> Undefined]

\* the status values the requests carry; the column is a varchar
OrderStatuses == {"pending", "completed", "cancelled"}

OrderPatches ==
  {NoOrderColumns}
  \cup {[NoOrderColumns EXCEPT !.truckId = Num(k)] : k \in TruckIds}
  \cup {[NoOrderColumns EXCEPT !.status = Str(st)] : st \in OrderStatuses}
  \cup {[NoOrderColumns EXCEPT !.totalAmount = Str("-5.00")],
        [truckId |-> Num(1), totalAmount |-> Str("12.50"), status |-> Str("completed"),
         items |-> Undefined],
        [NoOrderColumns EXCEPT !.truckId = Str("1")],
        [NoOrderColumns EXCEPT !.totalAmount = Str("abc")],
        [NoOrderColumns EXCEPT !.status = Num(1)]}

\* insertOrderSchema.parse(body): required columns present and well typed
insertOrderSchema(body) ==
  /\ IsNum(body.truckId)
  /\ IsStr(body.totalAmount)
  /\ ~IsUndefined(body.items)
  /\ (IsUndefined(body.status) \/ IsStr(body.status))

\* insertOrderSchema.partial().parse(body): every column optional
insertOrderSchemaPartial(body) ==
  /\ (IsUndefined(body.truckId) \/ IsNum(body.truckId))
  /\ (IsUndefined(body.totalAmount) \/ IsStr(body.totalAmount))
  /\ (IsUndefined(body.status) \/ IsStr(body.status))

\* the database accepts the text for a numeric(10,2) column
NumericAccepted(x) == IsDecimalText(x.v) /\ FracDigits(x.v) <= 2

\* storage.createOrder: insert(orders).values(order).returning()
createOrder(order) ==
  Append(orders,
    [id |-> Len(orders) + 1,
     truckId |-> order.truckId.v,
     totalAmount |-> FormatCents(Cents(order.totalAmount.v)),
     status |-> IF IsUndefined(order.status) THEN "pending" ELSE order.status.v,
     createdAt |-> today])

\* as updateOrder, but only a pending order takes a new status
updateOrderFromPending(id, order) ==
  [i \in 1..Len(orders) |->
     IF orders[i].id # id THEN orders[i]
     ELSE [orders[i] EXCEPT
             !.truckId = IF IsUndefined(order.truckId) THEN @ ELSE order.truckId.v,
             !.totalAmount = IF IsUndefined(order.totalAmount) THEN @
                             ELSE FormatCents(Cents(order.totalAmount.v)),
             !.status = IF IsUndefined(order.status) \/ @ # "pending" THEN @
                        ELSE order.status.v]]

\* storage.updateOrder: update(orders).set({...order, updatedAt}).where(id)
updateOrder(id, order) ==
  [i \in 1..Len(orders) |->
     IF orders[i].id # id THEN orders[i]
     ELSE [orders[i] EXCEPT
             !.truckId = IF IsUndefined(order.truckId) THEN @ ELSE order.truckId.v,
             !.totalAmount = IF IsUndefined(order.totalAmount) THEN @
                             ELSE FormatCents(Cents(order.totalAmount.v)),
             !.status = IF IsUndefined(order.status) THEN @ ELSE order.status.v]]

\* POST /api/orders with a body of the given set, while the table has room
PostOrderOf(bodies, room) ==
  /\ Len(orders) < room
  /\ \E body \in bodies :
       IF insertOrderSchema(body) /\ NumericAccepted(body.totalAmount)
       THEN /\ orders' = createOrder(body)
            /\ res' = 200
       ELSE /\ orders' = orders
            /\ res' = 500
  /\ UNCHANGED <<reviews, locations, nextLocationId, today, pageVars, clientVars, configVars, tenantVars, statsCall, caller, teamMembers, proteinInventory, inventoryItems, autocomplete, animation>>
  /\ Observed

PostOrder == PostOrderOf(OrderBodies, MaxOrders)

\* the body the point of sale sends for truck 1, for a table that grows long
ListedOrderBodies ==
  {[truckId |-> Num(1), totalAmount |-> Str("12.50"), status |-> Undefined,
    items |-> JsonItems]}

PostListedOrder == PostOrderOf(ListedOrderBodies, MaxListedOrders)

\* limit = 50, the default of getOrdersByTruckId's second parameter
OrderListLimit == 50

Reverse(seq) == [i \in 1..Len(seq) |-> seq[Len(seq) + 1 - i]]

\* storage.getOrdersByTruckId(truckId): the truck's rows, newest first
\* (createdAt is defaultNow(), so later inserts come first), cut at the limit
getOrdersByTruckId(truckId) ==
  LET rows == Reverse(SelectSeq(orders, LAMBDA o : o.truckId = truckId))
  IN  SubSeq(rows, 1, IF Len(rows) < OrderListLimit THEN Len(rows) ELSE OrderListLimit)

\* the handler of PUT /api/orders/:id: the table and the status code it leaves
putOrder(id, body) ==
  IF /\ insertOrderSchemaPartial(body)
     /\ (IsUndefined(body.totalAmount) \/ NumericAccepted(body.totalAmount))
  THEN [orders |-> updateOrder(id, body), res |-> 200]
  ELSE [orders |-> orders, res |-> 500]

\* PUT /api/orders/:id with the given id and body
PutOrderWith(id, body) ==
  /\ LET put == putOrder(id, body)
     IN  orders' = put.orders /\ res' = put.res
  /\ UNCHANGED <<reviews, locations, nextLocationId, today, pageVars, clientVars, configVars, tenantVars, statsCall, caller, teamMembers, proteinInventory, inventoryItems, autocomplete, animation>>
  /\ Observed

PutOrder == \E id \in 1..MaxOrders, body \in OrderPatches : PutOrderWith(id, body)

\* the server clock passes midnight
Tick ==
  /\ today < MaxDay
  /\ today' = today + 1
  /\ UNCHANGED <<orders, reviews, locations, nextLocationId, res, pageVars, clientVars, configVars, tenantVars, statsVars, caller, teamMembers, proteinInventory, inventoryItems, autocomplete, animation>>

(***************************************************************************)
(* Table reviews and POST /api/reviews.                                    *)
(***************************************************************************)
\* bodies of POST /api/reviews: integer ratings inside and outside 1..5, and
\* one malformed body for each way a body is refused
ReviewBodies ==
  [truckId : {Num(k) : k \in TruckIds},
   customerName : {Str("Ana")},
   rating : {Num(-1), Num(0), Num(4), Num(5), Num(6)}]
  \cup
  {[truckId |-> Undefined, customerName |-> Str("Ana"), rating |-> Num(5)],
   [truckId |-> Num(1), customerName |-> Undefined, rating |-> Num(5)],
   [truckId |-> Num(1), customerName |-> Str("Ana"), rating |-> Undefined],
   [truckId |-> Num(1), customerName |-> Str("Ana"), rating |-> Str("5")]}

\* insertReviewSchema.parse(body): createInsertSchema(reviews) without id, createdAt
insertReviewSchema(body) ==
  /\ IsNum(body.truckId)
  /\ IsStr(body.customerName)
  /\ IsNum(body.rating)

\* storage.createReview: insert(reviews).values(review).returning()
createReview(review) ==
  Append(reviews,
    [id |-> Len(reviews) + 1,
     truckId |-> review.truckId.v,
     customerName |-> review.customerName.v,
     rating |-> review.rating.v,
     createdAt |-> today])

\* POST /api/reviews
\* the handler of POST /api/reviews: the table and the status code it leaves
postReview(body) ==
  IF insertReviewSchema(body)
  THEN [reviews |-> createReview(body), res |-> 200]
  ELSE [reviews |-> reviews, res |-> 500]

PostReviewOf(bodies) ==
  /\ Len(reviews) < MaxReviews
  /\ \E body \in bodies :
       LET post == postReview(body)
       IN  reviews' = post.reviews /\ res' = post.res
  /\ UNCHANGED <<orders, locations, nextLocationId, today, pageVars, clientVars, configVars, tenantVars, statsCall, caller, teamMembers, proteinInventory, inventoryItems, autocomplete, animation>>
  /\ Observed

PostReview == PostReviewOf(ReviewBodies)

\* storage.getReviewsByTruckId (the rows; the order of the list is by createdAt)
getReviewsByTruckId(truckId) ==
  SelectSeq(reviews, LAMBDA r : r.truckId = truckId)

(***************************************************************************)
(* Table locations and its routes.  isActive is a nullable boolean column  *)
(* with default false.                                                     *)
(***************************************************************************)
LocationBodies ==
  [truckId : {Undefined} \cup {Num(k) : k \in TruckIds},
   name : {Undefined, Str("Plaza")},
   address : {Undefined, Str("1 Main St")},
   isActive : {Undefined, Null, Bool(TRUE), Bool(FALSE), Str("yes")}]

\* insertLocationSchema.parse(body)
insertLocationSchema(body) ==
  /\ IsNum(body.truckId)
  /\ IsStr(body.name)
  /\ IsStr(body.address)
  /\ (IsNullish(body.isActive) \/ IsBool(body.isActive))

\* insertLocationSchema.partial().parse(body)
insertLocationSchemaPartial(body) ==
  /\ (IsUndefined(body.truckId) \/ IsNum(body.truckId))
  /\ (IsUndefined(body.name) \/ IsStr(body.name))
  /\ (IsUndefined(body.address) \/ IsStr(body.address))
  /\ (IsNullish(body.isActive) \/ IsBool(body.isActive))

\* storage.createLocation
createLocation(location) ==
  Append(locations,
    [id |-> nextLocationId,
     truckId |-> location.truckId.v,
     name |-> location.name.v,
     address |-> location.address.v,
     isActive |-> IF IsUndefined(location.isActive) THEN Bool(FALSE)
                  ELSE location.isActive])

\* as updateLocation, but activating a location deactivates the truck's others
updateLocationExclusive(id, location) ==
  LET target == SelectSeq(locations, LAMBDA l : l.id = id)
  IN  [i \in 1..Len(locations) |->
         IF locations[i].id # id
         THEN IF /\ location.isActive = Bool(TRUE)
                 /\ target # <<>>
                 /\ locations[i].truckId = target[1].truckId
              THEN [locations[i] EXCEPT !.isActive = Bool(FALSE)]
              ELSE locations[i]
         ELSE [locations[i] EXCEPT
                 !.truckId = IF IsUndefined(location.truckId) THEN @ ELSE location.truckId.v,
                 !.name = IF IsUndefined(location.name) THEN @ ELSE location.name.v,
                 !.address = IF IsUndefined(location.address) THEN @ ELSE location.address.v,
                 !.isActive = IF IsUndefined(location.isActive) THEN @ ELSE location.isActive]]

\* storage.updateLocation (the rows keep no timestamps: updatedAt is not modelled)
updateLocation(id, location) ==
  [i \in 1..Len(locations) |->
     IF locations[i].id # id THEN locations[i]
     ELSE [locations[i] EXCEPT
             !.truckId = IF IsUndefined(location.truckId) THEN @ ELSE location.truckId.v,
             !.name = IF IsUndefined(location.name) THEN @ ELSE location.name.v,
             !.address = IF IsUndefined(location.address) THEN @ ELSE location.address.v,
             !.isActive = IF IsUndefined(location.isActive) THEN @ ELSE location.isActive]]

\* storage.deleteLocation
deleteLocation(id) == SelectSeq(locations, LAMBDA l : l.id # id)

\* the handler of POST /api/locations: the table, the serial and the status code
postLocation(body) ==
  IF insertLocationSchema(body)
  THEN [locations |-> createLocation(body), nextLocationId |-> nextLocationId + 1,
        res |-> 200]
  ELSE [locations |-> locations, nextLocationId |-> nextLocationId, res |-> 500]

\* POST /api/locations
PostLocation ==
  /\ nextLocationId <= MaxLocations
  /\ \E body \in LocationBodies :
       IF insertLocationSchema(body)
       THEN /\ locations' = createLocation(body)
            /\ nextLocationId' = nextLocationId + 1
            /\ res' = 200
       ELSE /\ UNCHANGED <<locations, nextLocationId>>
            /\ res' = 500
  /\ UNCHANGED <<orders, reviews, today, pageVars, clientVars, configVars, tenantVars, statsCall, caller, teamMembers, proteinInventory, inventoryItems, autocomplete, animation>>
  /\ Observed

\* the handler of PUT /api/locations/:id: the table and the status code it leaves
putLocation(id, body) ==
  IF insertLocationSchemaPartial(body)
  THEN [locations |-> updateLocation(id, body), res |-> 200]
  ELSE [locations |-> locations, res |-> 500]

\* PUT /api/locations/:id
PutLocation ==
  /\ \E id \in 1..MaxLocations, body \in LocationBodies :
       LET put == putLocation(id, body)
       IN  locations' = put.locations /\ res' = put.res
  /\ UNCHANGED <<orders, reviews, nextLocationId, today, pageVars, clientVars, configVars, tenantVars, statsCall, caller, teamMembers, proteinInventory, inventoryItems, autocomplete, animation>>
  /\ Observed

\* Locations.toggleActive: the body of updateMutation's PUT, { isActive: !location.isActive }
toggleActive(location) ==
  [truckId |-> Undefined, name |-> Undefined, address |-> Undefined,
   isActive |-> Bool(location.isActive # Bool(TRUE))]

\* DELETE /api/locations/:id
DeleteLocation ==
  /\ \E id \in 1..MaxLocations :
       /\ locations' = deleteLocation(id)
       /\ res' = 200
  /\ UNCHANGED <<orders, reviews, nextLocationId, today, pageVars, clientVars, configVars, tenantVars, statsCall, caller, teamMembers, proteinInventory, inventoryItems, autocomplete, animation>>
  /\ Observed

\* GET /api/dashboard-stats/:truckId: the body of the response is
\* getDashboardStats(truckId); the handler only reads the tables
GetDashboardStats ==
  /\ \E truckId \in TruckIds : res' = 200
  /\ UNCHANGED <<orders, reviews, locations, nextLocationId, today, pageVars, clientVars, configVars, tenantVars, statsVars, caller, teamMembers, proteinInventory, inventoryItems, autocomplete, animation>>

\* getDashboardStats as it runs: three selects, each awaited, with the
\* requests of other clients handled in between
StatsReadOrders ==
  /\ statsCall.pc \in {"idle", "done"}
  /\ \E truckId \in TruckIds :
       LET amount(o) == NumberOfAmount(o.totalAmount)
       IN  /\ statsCall' = [pc |-> "reviews", truckId |-> truckId,
                            todaySales |-> Reduce(amount, todayOrders(truckId), 0),
                            ordersToday |-> Len(todayOrders(truckId)),
                            averageRating |-> 0, activeLocations |-> 0]
           /\ seen' = {getDashboardStats(truckId)}
  /\ UNCHANGED <<storeVars, pageVars, clientVars, configVars, tenantVars, caller, teamMembers, proteinInventory, inventoryItems, autocomplete, animation>>

StatsReadReviews ==
  /\ statsCall.pc = "reviews"
  /\ LET rating(r) == r.rating
         list == reviewList(statsCall.truckId)
     IN  statsCall' = [statsCall EXCEPT
                        !.pc = "locations",
                        !.averageRating = IF Len(list) > 0
                                          THEN MathRound(10 * Reduce(rating, list, 0), Len(list))
                                          ELSE 0]
  /\ UNCHANGED <<storeVars, pageVars, clientVars, configVars, tenantVars, seen, caller, teamMembers, proteinInventory, inventoryItems, autocomplete, animation>>

StatsReadLocations ==
  /\ statsCall.pc = "locations"
  /\ statsCall' = [statsCall EXCEPT
                     !.pc = "done",
                     !.activeLocations = Len(activeLocationsList(statsCall.truckId))]
  /\ res' = 200
  /\ UNCHANGED <<orders, reviews, locations, nextLocationId, today, pageVars, clientVars,
                 configVars, tenantVars, seen, caller, teamMembers, proteinInventory, inventoryItems, autocomplete, animation>>

\* the orders and reviews written while a stats call runs
StatsOrderBodies ==
  {[truckId |-> Num(1), totalAmount |-> Str("12.50"), status |-> Str("completed"),
    items |-> JsonItems]}

StatsReviewBodies ==
  [truckId : {Num(1)}, customerName : {Str("Ana")}, rating : {Num(5)}]

PostStatsOrder == PostOrderOf(StatsOrderBodies, MaxOrders)

PostStatsReview == PostReviewOf(StatsReviewBodies)

(***************************************************************************)
(* Reviews page (client/src/pages/reviews.tsx): the rating distribution    *)
(* of the list fetched for the truck.  percentage is the exact quotient    *)
(* num / den.                                                              *)
(***************************************************************************)
RatingBuckets == <<5, 4, 3, 2, 1>>

\* reviews.filter(review => review.rating === rating).length
countRating(list, rating) == Len(SelectSeq(list, LAMBDA r : r.rating = rating))

ratingDistribution(list) ==
  [k \in 1..Len(RatingBuckets) |->
     [rating |-> RatingBuckets[k],
      count |-> countRating(list, RatingBuckets[k]),
      percentage |-> IF Len(list) > 0
                     THEN [num |-> countRating(list, RatingBuckets[k]) * 100,
                           den |-> Len(list)]
                     ELSE [num |-> 0, den |-> 1]]]

(***************************************************************************)
(* IEEE 754 binary64 arithmetic, as far as the client's comparisons need   *)
(* it.  Naturals of any size are little-endian sequences of 13-bit limbs;  *)
(* a finite double is [neg, m, e] with value (-1)^neg * m * 2^e and        *)
(* m < 2^53 + 1.  Results are rounded to nearest, ties to even.            *)
(***************************************************************************)
LimbBits == 13

Limb == 2 ^ LimbBits

MantissaBits == 53

RECURSIVE BigNormalize(_)
BigNormalize(a) ==
  IF a = <<>> THEN a
  ELSE IF a[Len(a)] = 0 THEN BigNormalize(SubSeq(a, 1, Len(a) - 1)) ELSE a

RECURSIVE BigFromInt(_)
BigFromInt(n) == IF n = 0 THEN <<>> ELSE <<n % Limb>> \o BigFromInt(n \div Limb)

RECURSIVE BigMulSmallCarry(_, _, _)
BigMulSmallCarry(a, k, carry) ==
  IF a = <<>> THEN BigFromInt(carry)
  ELSE LET t == Head(a) * k + carry
       IN  <<t % Limb>> \o BigMulSmallCarry(Tail(a), k, t \div Limb)

\* a * k for 0 <= k < 2^17
BigMulSmall(a, k) == BigNormalize(BigMulSmallCarry(a, k, 0))

RECURSIVE BigAddCarry(_, _, _)
BigAddCarry(a, b, carry) ==
  IF a = <<>> /\ b = <<>> THEN BigFromInt(carry)
  ELSE LET x == IF a = <<>> THEN 0 ELSE Head(a)
           y == IF b = <<>> THEN 0 ELSE Head(b)
           t == x + y + carry
       IN  <<t % Limb>> \o BigAddCarry(IF a = <<>> THEN a ELSE Tail(a),
                                       IF b = <<>> THEN b ELSE Tail(b),
                                       t \div Limb)

BigAdd(a, b) == BigNormalize(BigAddCarry(a, b, 0))

RECURSIVE BigMul(_, _)
BigMul(a, b) ==
  IF a = <<>> \/ b = <<>> THEN <<>>
  ELSE BigAdd(BigMulSmall(a, Head(b)),
              LET rest == BigMul(a, Tail(b))
              IN  IF rest = <<>> THEN rest ELSE <<0>> \o rest)

RECURSIVE BigDivSmallFrom(_, _, _, _)
\* long division of the limbs a[1..i] by k, most significant limb first
BigDivSmallFrom(a, k, i, rem) ==
  IF i = 0 THEN [q |-> <<>>, r |-> rem]
  ELSE LET cur == rem * Limb + a[i]
           low == BigDivSmallFrom(a, k, i - 1, cur % k)
       IN  [q |-> Append(low.q, cur \div k), r |-> low.r]

\* quotient and remainder of a by k, 0 < k < 2^17
BigDivSmall(a, k) ==
  LET d == BigDivSmallFrom(a, k, Len(a), 0)
  IN  [q |-> BigNormalize(d.q), r |-> d.r]

BigShl(a, n) ==
  IF a = <<>> THEN a
  ELSE [i \in 1..(n \div LimbBits) |-> 0] \o BigMulSmall(a, 2 ^ (n % LimbBits))

BigShr(a, n) ==
  IF Len(a) <= n \div LimbBits THEN <<>>
  ELSE BigDivSmall(SubSeq(a, n \div LimbBits + 1, Len(a)), 2 ^ (n % LimbBits)).q

\* a mod 2^n
BigLowBits(a, n) ==
  IF Len(a) <= n \div LimbBits THEN a
  ELSE BigNormalize(SubSeq(a, 1, n \div LimbBits)
                      \o <<a[n \div LimbBits + 1] % (2 ^ (n % LimbBits))>>)

RECURSIVE IntBitLen(_)
IntBitLen(n) == IF n = 0 THEN 0 ELSE 1 + IntBitLen(n \div 2)

BigBitLen(a) ==
  IF a = <<>> THEN 0 ELSE LimbBits * (Len(a) - 1) + IntBitLen(a[Len(a)])

RECURSIVE BigCmpFrom(_, _, _)
BigCmpFrom(a, b, i) ==
  IF i = 0 THEN 0
  ELSE IF a[i] < b[i] THEN -1
  ELSE IF a[i] > b[i] THEN 1
  ELSE BigCmpFrom(a, b, i - 1)

\* -1, 0 or 1 as a < b, a = b or a > b
BigCmp(a, b) ==
  IF Len(a) < Len(b) THEN -1
  ELSE IF Len(a) > Len(b) THEN 1
  ELSE BigCmpFrom(a, b, Len(a))

BigIsOdd(a) == a # <<>> /\ a[1] % 2 = 1

\* the natural q (followed by a non-zero tail when sticky) rounded to 53
\* significant bits, ties to even: [m, d] with value m * 2^d
RoundToMantissa(q, sticky) ==
  LET d == BigBitLen(q) - MantissaBits
  IN  IF d <= 0 THEN [m |-> q, d |-> 0]
      ELSE LET hi == BigShr(q, d)
               lo == BigLowBits(q, d)
               half == BigShl(<<1>>, d - 1)
               c == BigCmp(lo, half)
               up == c > 0 \/ (c = 0 /\ (sticky \/ BigIsOdd(hi)))
           IN  [m |-> IF up THEN BigAdd(hi, <<1>>) ELSE hi, d |-> d]

\* bits kept below the binary point when a quotient is rounded
GuardBits == 64

\* the double nearest to (-1)^neg * p / q, for naturals p < 2^31, 0 < q < 2^17
DoubleOfRatio(neg, p, q) ==
  IF p = 0 THEN [neg |-> FALSE, m |-> <<>>, e |-> 0]
  ELSE LET d == BigDivSmall(BigShl(BigFromInt(p), GuardBits), q)
           r == RoundToMantissa(d.q, d.r # 0)
       IN  [neg |-> neg, m |-> r.m, e |-> r.d - GuardBits]

\* x * y
DoubleMul(x, y) ==
  LET r == RoundToMantissa(BigMul(x.m, y.m), FALSE)
  IN  IF r.m = <<>> THEN [neg |-> FALSE, m |-> <<>>, e |-> 0]
      ELSE [neg |-> x.neg # y.neg, m |-> r.m, e |-> x.e + y.e + r.d]

\* -1, 0 or 1 comparing the magnitudes of x and y
DoubleCmpMagnitude(x, y) ==
  IF x.m = <<>> \/ y.m = <<>>
  THEN (IF x.m = y.m THEN 0 ELSE IF x.m = <<>> THEN -1 ELSE 1)
  ELSE LET lowest == IF x.e < y.e THEN x.e ELSE y.e
       IN  BigCmp(BigShl(x.m, x.e - lowest), BigShl(y.m, y.e - lowest))

\* x < y
DoubleLess(x, y) ==
  IF x.neg /\ ~y.neg THEN TRUE
  ELSE IF ~x.neg /\ y.neg THEN FALSE
  ELSE IF x.neg THEN DoubleCmpMagnitude(x, y) > 0
  ELSE DoubleCmpMagnitude(x, y) < 0

(***************************************************************************)
(* JavaScript conversions used by the pages.  A number is [nan, c]: NaN,   *)
(* or the decimal value c / 100, which the double nearest to it stands     *)
(* for.                                                                    *)
(***************************************************************************)
NaN == [nan |-> TRUE, c |-> 0]

Hundredths(c) == [nan |-> FALSE, c |-> c]

\* Number(x)
ToNumber(x) ==
  CASE x.t = "num" -> Hundredths(100 * x.v)
    [] x.t = "str" -> IF x.v = "" THEN Hundredths(0)
                      ELSE IF IsDecimalText(x.v) /\ FracDigits(x.v) <= 2
                           THEN Hundredths(Cents(x.v))
                           ELSE NaN
    [] x.t = "null" -> Hundredths(0)
    [] x.t = "bool" -> Hundredths(IF x.v THEN 100 ELSE 0)
    [] OTHER -> NaN

\* the truth value of x in a condition
Truthy(x) ==
  CASE x.t = "num" -> x.v # 0
    [] x.t = "str" -> x.v # ""
    [] x.t = "bool" -> x.v
    [] x.t \in {"null", "undefined"} -> FALSE
    [] OTHER -> TRUE

\* the double that holds the number n
DoubleOf(n) == DoubleOfRatio(n.c < 0, IF n.c < 0 THEN 0 - n.c ELSE n.c, 100)

\* a <= b
NumberLessEq(a, b) == ~a.nan /\ ~b.nan /\ ~DoubleLess(DoubleOf(b), DoubleOf(a))

\* a > 0
NumberPositive(a) == ~a.nan /\ DoubleLess(DoubleOf(Hundredths(0)), DoubleOf(a))

(***************************************************************************)
(* Inventory and Dashboard pages: the low-stock filter.                    *)
(***************************************************************************)
InventoryItems ==
  [currentStock : {Str("0.00"), Str("3.50"), Num(0), Num(7)},
   lowStockThreshold : {Null, Str("0.00"), Str("5.00"), Num(0), Num(5)}]

RECURSIVE SeqsUpTo(_, _)
\* the sequences of at most n elements of S
SeqsUpTo(S, n) ==
  IF n = 0 THEN {<<>>}
  ELSE LET shorter == SeqsUpTo(S, n - 1)
       IN  shorter \cup {Append(q, x) : q \in {r \in shorter : Len(r) = n - 1}, x \in S}

InventoryLists == SeqsUpTo(InventoryItems, MaxItems)

\* item.lowStockThreshold && Number(item.currentStock) <= Number(item.lowStockThreshold)
isLowStock(item) ==
  /\ Truthy(item.lowStockThreshold)
  /\ NumberLessEq(ToNumber(item.currentStock), ToNumber(item.lowStockThreshold))

\* inventory.filter(item => ...)
computeLowStock(list) == SelectSeq(list, isLowStock)

\* the page renders the fetched list
RenderInventory ==
  /\ ~rendered
  /\ lowStockItems' = computeLowStock(inventory)
  /\ rendered' = TRUE
  /\ UNCHANGED <<storeVars, clientVars, configVars, tenantVars, statsVars, inventory, protein, usagePercent, isLow, items, formatted, caller, teamMembers, proteinInventory, inventoryItems, autocomplete, animation>>

(***************************************************************************)
(* ProteinInventory page: usage percentage and the Low badge of one card.  *)
(* Amounts are numeric(10,2) columns, received as decimal text; usedAmount *)
(* may be null.  A quotient is kept exactly as num / den.                  *)
(***************************************************************************)
ProteinRecords ==
  [allocatedAmount : {Str("0.00"), Str("1.50"), Str("3.00"), Str("50.00"), Str("-5.00")},
   currentStock : {Str("0.00"), Str("0.30"), Str("0.60"), Str("8.00"), Str("10.00")},
   usedAmount : {Null, Str("0.00"), Str("1.50"), Str("42.00")}]

Quotient(n, d) == [k |-> "num", num |-> n, den |-> d]

\* a / b * 100 for numbers a, b
DivideTimes100(a, b) ==
  IF a.nan \/ b.nan \/ (a.c = 0 /\ b.c = 0) THEN [k |-> "NaN", num |-> 0, den |-> 1]
  ELSE IF b.c = 0 THEN [k |-> "Infinity", num |-> a.c, den |-> 1]
  ELSE Quotient(a.c * 100, b.c)

\* getUsagePercentage(used, allocated)
getUsagePercentageUnguarded(used, allocated) == DivideTimes100(used, allocated)

getUsagePercentage(used, allocated) ==
  IF NumberPositive(allocated) THEN DivideTimes100(used, allocated) ELSE Quotient(0, 1)

\* the literal 0.2
Point2 == DoubleOfRatio(FALSE, 2, 10)

\* remaining < Number(protein.allocatedAmount) * 0.2
computeIsLow(p) ==
  DoubleLess(DoubleOf(ToNumber(p.currentStock)),
             DoubleMul(DoubleOf(ToNumber(p.allocatedAmount)), Point2))

\* the page renders the card of the record
RenderProtein ==
  /\ ~rendered
  /\ usagePercent' = getUsagePercentage(ToNumber(protein.usedAmount),
                                        ToNumber(protein.allocatedAmount))
  /\ isLow' = computeIsLow(protein)
  /\ rendered' = TRUE
  /\ UNCHANGED <<storeVars, clientVars, configVars, tenantVars, statsVars, inventory, lowStockItems, protein, items, formatted, caller, teamMembers, proteinInventory, inventoryItems, autocomplete, animation>>

(***************************************************************************)
(* JSON text.  JsonParse reads the text character by character: spaces,    *)
(* null, true, false, integers, strings without escapes, arrays and        *)
(* objects.  A result is [ok, val, pos]: whether a value was read, the     *)
(* value, and the position after it.                                       *)
(***************************************************************************)
Quote == "\""

CharAt(s, i) == IF i >= 1 /\ i <= Len(s) THEN SubSeq(s, i, i) ELSE ""

ParseFailure == [ok |-> FALSE, val |-> Undefined, pos |-> 0]

ParseSuccess(val, pos) == [ok |-> TRUE, val |-> val, pos |-> pos]

RECURSIVE SkipSpaces(_, _)
SkipSpaces(s, i) == IF CharAt(s, i) = " " THEN SkipSpaces(s, i + 1) ELSE i

RECURSIVE EndOfDigits(_, _)
\* the position after the digits that start at i
EndOfDigits(s, i) == IF IsDigit(CharAt(s, i)) THEN EndOfDigits(s, i + 1) ELSE i

ParseLiteral(s, i, word, val) ==
  IF i + Len(word) - 1 <= Len(s) /\ SubSeq(s, i, i + Len(word) - 1) = word
  THEN ParseSuccess(val, i + Len(word))
  ELSE ParseFailure

ParseString(s, i) ==
  LET close == IndexOf(s, Quote, i + 1)
  IN  IF CharAt(s, i) = Quote /\ close # 0
      THEN ParseSuccess(Str(SubSeq(s, i + 1, close - 1)), close + 1)
      ELSE ParseFailure

ParseInteger(s, i) ==
  LET first == IF CharAt(s, i) = "-" THEN i + 1 ELSE i
      last == EndOfDigits(s, first)
      text == SubSeq(s, first, last - 1)
  IN  IF text = "" \/ (Len(text) > 1 /\ Head(text) = "0") THEN ParseFailure
      ELSE ParseSuccess(Num(IF first = i THEN DigitsVal(text, 0)
                            ELSE 0 - DigitsVal(text, 0)), last)

RECURSIVE ParseValue(_, _)
RECURSIVE ParseElements(_, _, _)
RECURSIVE ParseMembers(_, _, _)

\* the elements of an array after "[" or ",", up to and including "]"
ParseElements(s, i, acc) ==
  LET el == ParseValue(s, i)
      next == SkipSpaces(s, el.pos)
  IN  IF ~el.ok THEN ParseFailure
      ELSE IF CharAt(s, next) = "," THEN ParseElements(s, next + 1, Append(acc, el.val))
      ELSE IF CharAt(s, next) = "]" THEN ParseSuccess(Arr(Append(acc, el.val)), next + 1)
      ELSE ParseFailure

\* the members of an object after "{" or ",", up to and including "}"
ParseMembers(s, i, acc) ==
  LET key == ParseString(s, SkipSpaces(s, i))
      colon == SkipSpaces(s, key.pos)
      member == ParseValue(s, colon + 1)
      next == SkipSpaces(s, member.pos)
  IN  IF ~key.ok \/ CharAt(s, colon) # ":" THEN ParseFailure
      ELSE IF ~member.ok THEN ParseFailure
      ELSE IF CharAt(s, next) = ","
           THEN ParseMembers(s, next + 1, Append(acc, <<key.val.v, member.val>>))
      ELSE IF CharAt(s, next) = "}"
           THEN ParseSuccess(Obj(Append(acc, <<key.val.v, member.val>>)), next + 1)
      ELSE ParseFailure

ParseValue(s, i) ==
  LET start == SkipSpaces(s, i)
      c == CharAt(s, start)
      inner == SkipSpaces(s, start + 1)
  IN  CASE c = "[" -> IF CharAt(s, inner) = "]" THEN ParseSuccess(Arr(<<>>), inner + 1)
                      ELSE ParseElements(s, start + 1, <<>>)
        [] c = "{" -> IF CharAt(s, inner) = "}" THEN ParseSuccess(Obj(<<>>), inner + 1)
                      ELSE ParseMembers(s, start + 1, <<>>)
        [] c = Quote -> ParseString(s, start)
        [] c = "n" -> ParseLiteral(s, start, "null", Null)
        [] c = "t" -> ParseLiteral(s, start, "true", Bool(TRUE))
        [] c = "f" -> ParseLiteral(s, start, "false", Bool(FALSE))
        [] c = "-" \/ IsDigit(c) -> ParseInteger(s, start)
        [] OTHER -> ParseFailure

\* JSON.parse(text): ok is FALSE where JSON.parse throws SyntaxError
JsonParse(text) ==
  LET r == ParseValue(text, 1)
  IN  IF r.ok /\ SkipSpaces(text, r.pos) = Len(text) + 1 THEN r ELSE ParseFailure

RECURSIVE JoinStrings(_, _)
\* Array.prototype.join(separator) of a sequence of strings
JoinStrings(parts, separator) ==
  IF parts = <<>> THEN ""
  ELSE IF Len(parts) = 1 THEN parts[1]
  ELSE parts[1] \o separator \o JoinStrings(Tail(parts), separator)

RECURSIVE JsonStringify(_)
\* JSON.stringify(x) for a value without undefined
JsonStringify(x) ==
  CASE x.t = "num" -> ToString(x.v)
    [] x.t = "str" -> Quote \o x.v \o Quote
    [] x.t = "bool" -> IF x.v THEN "true" ELSE "false"
    [] x.t = "array" ->
         "[" \o JoinStrings([k \in 1..Len(x.v) |-> JsonStringify(x.v[k])], ",") \o "]"
    [] x.t = "object" ->
         "{" \o JoinStrings([k \in 1..Len(x.v) |->
                               Quote \o x.v[k][1] \o Quote \o ":" \o JsonStringify(x.v[k][2])],
                            ",") \o "}"
    [] OTHER -> "null"

(***************************************************************************)
(* RecentOrders (client/src/components/recent-orders.tsx):                 *)
(* formatOrderItems.  An outcome is a returned string or a thrown error.   *)
(***************************************************************************)
Returned(text) == [thrown |-> FALSE, value |-> text]

Thrown(error) == [thrown |-> TRUE, value |-> error]

\* whether reading a property of x throws TypeError
PropertyThrows(x) == IsNullish(x)

RECURSIVE LastMember(_, _, _)
LastMember(members, key, i) ==
  IF i = 0 THEN Undefined
  ELSE IF members[i][1] = key THEN members[i][2] ELSE LastMember(members, key, i - 1)

\* x[key] for a value x that is not null or undefined
GetProperty(x, key) ==
  IF x.t = "object" THEN LastMember(x.v, key, Len(x.v)) ELSE Undefined

RECURSIVE TemplateString(_)
\* the text of `${x}`
TemplateString(x) ==
  CASE x.t = "num" -> ToString(x.v)
    [] x.t = "str" -> x.v
    [] x.t = "bool" -> IF x.v THEN "true" ELSE "false"
    [] x.t = "null" -> "null"
    [] x.t = "undefined" -> "undefined"
    [] x.t = "array" ->
         JoinStrings([k \in 1..Len(x.v) |->
                        IF IsNullish(x.v[k]) THEN "" ELSE TemplateString(x.v[k])], ",")
    [] OTHER -> "[object Object]"

\* `${item.quantity}x ${item.name}`
formatLine(item) ==
  TemplateString(GetProperty(item, "quantity")) \o "x "
    \o TemplateString(GetProperty(item, "name"))

formatArrayReversed(list) ==
  IF \E k \in 1..Len(list) : PropertyThrows(list[k]) THEN Thrown("TypeError")
  ELSE Returned(JoinStrings([k \in 1..Len(list) |-> formatLine(list[Len(list) + 1 - k])],
                            ", "))

\* items.map(item => ...).join(", ")
formatArray(list) ==
  IF \E k \in 1..Len(list) : PropertyThrows(list[k]) THEN Thrown("TypeError")
  ELSE Returned(JoinStrings([k \in 1..Len(list) |-> formatLine(list[k])], ", "))

\* the catch block of formatOrderItems
onParseErrorRethrow == Thrown("SyntaxError")

onParseError == Returned("Invalid order data")

formatOrderItems(given) ==
  LET parsed == IF given.t = "str" THEN JsonParse(given.v) ELSE ParseSuccess(given, 0)
  IN  IF ~parsed.ok THEN onParseError
      ELSE IF parsed.val.t = "array" THEN formatArray(parsed.val.v)
      ELSE Returned("No items")

OrderLines ==
  {Obj(<< <<"name", Str(n)>>, <<"quantity", Num(q)>> >>) :
     n \in {"Taco", "Al Pastor"}, q \in {1, 12}}

LineArrays == {Arr(q) : q \in SeqsUpTo(OrderLines, MaxLines)}

\* arrays whose elements are not order lines
OddArrays == {Arr(<<Null>>), Arr(<<Num(1)>>), Arr(<<Obj(<<>>)>>)}

NonArrays ==
  {Null, Undefined, Num(3), Bool(TRUE), Obj(<< <<"name", Str("Taco")>>, <<"quantity", Num(1)>> >>)}

ParsedItems == LineArrays \cup OddArrays \cup NonArrays

EncodedItems ==
  {Str(JsonStringify(x)) : x \in ParsedItems \ {Undefined}}
  \cup {Str(JsonStringify(Str("Taco"))),
        Str("[ {\"name\": \"Taco\", \"quantity\": 12} ]")}

\* texts that JSON.parse refuses
InvalidJsonTexts ==
  {"not json", "", "[", "[1,]", "[1 2]", "01", "nul", "{name:1}", "{\"name\"}",
   "[{\"name\":\"Taco\",\"quantity\":2}", "[]]", "\"Taco"}
  \cup {SubSeq(JsonStringify(x), 1, Len(JsonStringify(x)) - 1) : x \in LineArrays}

ItemsInputs == ParsedItems \cup EncodedItems \cup {Str(text) : text \in InvalidJsonTexts}

\* the table renders the items cell of an order
RenderOrderItems ==
  /\ ~rendered
  /\ formatted' = formatOrderItems(items)
  /\ rendered' = TRUE
  /\ UNCHANGED <<storeVars, clientVars, configVars, tenantVars, statsVars, inventory, lowStockItems, protein, usagePercent, isLow, items, caller, teamMembers, proteinInventory, inventoryItems, autocomplete, animation>>

(***************************************************************************)
(* The client's query cache and the mutations of the Locations and Reviews *)
(* pages.  The cache is read-through and keyed by <<resource, truckId>>:   *)
(* a read of a valid entry is answered from the entry, a read of an        *)
(* invalid one fetches the list from the server and fills the entry;       *)
(* invalidation marks the entries whose key starts with the given key.     *)
(* A mutation is sent (the server handles the request) and its response    *)
(* is handled in a later step, where onSuccess runs.                       *)
(* An entry's field outdated records that a mutation of its resource has   *)
(* succeeded since the entry was filled.                                   *)
(***************************************************************************)
Resources == {"/api/locations", "/api/reviews", "/api/dashboard-stats"}

QueryKeys == {<<r, t>> : r \in Resources, t \in TruckIds}

Idle == [busy |-> FALSE, ok |-> FALSE, mutated |-> <<>>, invalidates |-> <<>>]

NothingServed == [key |-> <<>>, hit |-> FALSE, outdated |-> FALSE, data |-> <<>>]

\* storage.getLocationsByTruckId: the truck's rows, newest first
getLocationsByTruckId(truckId) ==
  Reverse(SelectSeq(locations, LAMBDA l : l.truckId = truckId))

\* the queryFn of a key: GET <resource>/<truckId>
queryFn(key) ==
  CASE key[1] = "/api/locations" -> getLocationsByTruckId(key[2])
    [] key[1] = "/api/reviews" -> getReviewsByTruckId(key[2])
    [] key[1] = "/api/dashboard-stats" -> getDashboardStats(key[2])

\* whether a query key starts with the key given to invalidateQueries
KeyMatches(key, given) ==
  /\ Len(given) <= Len(key)
  /\ \A n \in 1..Len(given) : key[n] = given[n]

\* queryClient.invalidateQueries({ queryKey: given }) for each given key
invalidateQueries(c, givenKeys) ==
  [k \in DOMAIN c |->
     IF \E n \in 1..Len(givenKeys) : KeyMatches(k, givenKeys[n])
     THEN [c[k] EXCEPT !.valid = FALSE]
     ELSE c[k]]

\* a mutation of the resource has succeeded: the filled entries of its key
\* now hold the list from before it
MarkOutdated(c, mutated) ==
  [k \in DOMAIN c |-> IF k = mutated THEN [c[k] EXCEPT !.outdated = TRUE] ELSE c[k]]

\* useQuery({ queryKey: [r, foodTruck.id] }) on a page of the user's truck
ReadQueryOf(r) ==
  /\ LET key == <<r, foodTruck>>
     IN  IF cache[key].valid
         THEN /\ served' = [key |-> key, hit |-> TRUE, outdated |-> cache[key].outdated,
                            data |-> cache[key].data]
              /\ cache' = cache
         ELSE /\ served' = [key |-> key, hit |-> FALSE, outdated |-> FALSE,
                            data |-> queryFn(key)]
              /\ cache' = [cache EXCEPT ![key] =
                             [valid |-> TRUE, outdated |-> FALSE, data |-> queryFn(key)]]
  /\ UNCHANGED <<storeVars, pageVars, configVars, tenantVars, statsVars, foodTruck, pending, issued, caller, teamMembers, proteinInventory, inventoryItems, autocomplete, animation>>

ReadQuery == \E r \in Resources : ReadQueryOf(r)

\* the body Locations.createMutation posts: the form's data and foodTruck.id
LocationFormBodies ==
  {[truckId |-> Num(foodTruck), name |-> Str("Plaza"), address |-> Str("1 Main St"),
    isActive |-> Bool(FALSE)]}

\* the body Reviews.createMutation posts
ReviewFormBodies ==
  {[truckId |-> Num(foodTruck), customerName |-> Str("Ana"), rating |-> Num(5)]}

\* a mutation has been sent and handled by the server with status code; the
\* keys are those its onSuccess gives to invalidateQueries
Sent(code, mutated, givenKeys) ==
  [busy |-> TRUE, ok |-> code = 200, mutated |-> mutated, invalidates |-> givenKeys]

CanMutate == ~pending.busy /\ issued < MaxMutations

\* Locations.createMutation.mutate(data)
CreateLocationMutation ==
  /\ CanMutate
  /\ nextLocationId <= MaxLocations
  /\ \E body \in LocationFormBodies :
       /\ IF insertLocationSchema(body)
          THEN /\ locations' = createLocation(body)
               /\ nextLocationId' = nextLocationId + 1
               /\ res' = 200
          ELSE /\ UNCHANGED <<locations, nextLocationId>>
               /\ res' = 500
       /\ pending' = Sent(res', <<"/api/locations", foodTruck>>,
                          << <<"/api/locations", foodTruck>> >>)
  /\ issued' = issued + 1
  /\ UNCHANGED <<orders, reviews, today, pageVars, configVars, tenantVars, statsCall, foodTruck, cache, served, caller, teamMembers, proteinInventory, inventoryItems, autocomplete, animation>>
  /\ Observed

\* Locations.toggleActive(location): updateMutation.mutate({ id, data })
UpdateLocationMutation ==
  /\ CanMutate
  /\ \E i \in 1..Len(locations) :
       /\ locations[i].truckId = foodTruck
       /\ LET put == putLocation(locations[i].id, toggleActive(locations[i]))
          IN  /\ locations' = put.locations
              /\ res' = put.res
              /\ pending' = Sent(put.res, <<"/api/locations", foodTruck>>,
                                 << <<"/api/locations", foodTruck>> >>)
  /\ issued' = issued + 1
  /\ UNCHANGED <<orders, reviews, nextLocationId, today, pageVars, configVars, tenantVars, statsCall, foodTruck, cache, served, caller, teamMembers, proteinInventory, inventoryItems, autocomplete, animation>>
  /\ Observed

\* Locations.handleDelete(id): deleteMutation.mutate(id)
DeleteLocationMutation ==
  /\ CanMutate
  /\ \E i \in 1..Len(locations) :
       /\ locations[i].truckId = foodTruck
       /\ locations' = deleteLocation(locations[i].id)
       /\ res' = 200
       /\ pending' = Sent(200, <<"/api/locations", foodTruck>>,
                          << <<"/api/locations", foodTruck>> >>)
  /\ issued' = issued + 1
  /\ UNCHANGED <<orders, reviews, nextLocationId, today, pageVars, configVars, tenantVars, statsCall, foodTruck, cache, served, caller, teamMembers, proteinInventory, inventoryItems, autocomplete, animation>>
  /\ Observed

\* Reviews.createMutation.mutate(data)
CreateReviewMutation ==
  /\ CanMutate
  /\ Len(reviews) < MaxReviews
  /\ \E body \in ReviewFormBodies :
       /\ IF insertReviewSchema(body)
          THEN /\ reviews' = createReview(body)
               /\ res' = 200
          ELSE /\ reviews' = reviews
               /\ res' = 500
       /\ pending' = Sent(res', <<"/api/reviews", foodTruck>>,
                          << <<"/api/reviews", foodTruck>>, <<"/api/dashboard-stats">> >>)
  /\ issued' = issued + 1
  /\ UNCHANGED <<orders, locations, nextLocationId, today, pageVars, configVars, tenantVars, statsCall, foodTruck, cache, served, caller, teamMembers, proteinInventory, inventoryItems, autocomplete, animation>>
  /\ Observed

\* as onSuccess, but without the call of invalidateQueries
onSuccessSilent(c, mutation) == MarkOutdated(c, mutation.mutated)

\* the onSuccess of the mutation: the cache after its invalidateQueries calls
onSuccess(c, mutation) ==
  invalidateQueries(MarkOutdated(c, mutation.mutated), mutation.invalidates)

\* the response of the pending mutation arrives: onSuccess or onError
Settle ==
  /\ pending.busy
  /\ cache' = IF pending.ok THEN onSuccess(cache, pending) ELSE cache
  /\ pending' = Idle
  /\ UNCHANGED <<storeVars, pageVars, configVars, tenantVars, statsVars, foodTruck, served, issued, caller, teamMembers, proteinInventory, inventoryItems, autocomplete, animation>>

(***************************************************************************)
(* Locations page: address autocomplete (client/src/pages/locations.tsx).  *)
(* handleAddressChange restarts a 300 ms timer; when the timer fires,      *)
(* searchAddresses runs with the text of that change and, for a text of    *)
(* three characters or more, awaits two fetches; its continuation sets the *)
(* suggestions when the responses arrive.                                  *)
(***************************************************************************)
\* texts typed into the address field
AddressTexts == {"ab", "abc", "abcd"}

NoTimeout == [set |-> FALSE, value |-> ""]

NoSuggestions == <<>>

\* data.features mapped to suggestions: the places Mapbox finds for the query
SuggestionsFor(query) == <<[display_name |-> query \o " St", address |-> query \o " St"]>>

NoAddressSearch ==
  [value |-> "", typed |-> "", keystrokes |-> 0, searchTimeout |-> NoTimeout,
   lookups |-> <<>>, addressSuggestions |-> NoSuggestions, showSuggestions |-> FALSE]

\* the sequence without its i-th element
RemoveAt(q, i) == SubSeq(q, 1, i - 1) \o SubSeq(q, i + 1, Len(q))

\* handleAddressChange(value, onChange): the pending timer is cleared and a
\* new one set
HandleAddressChange ==
  /\ autocomplete.keystrokes < MaxKeystrokes
  /\ \E value \in AddressTexts :
       autocomplete' = [autocomplete EXCEPT !.value = value, !.typed = value,
                                            !.keystrokes = @ + 1,
                                            !.searchTimeout = [set |-> TRUE, value |-> value]]
  /\ UNCHANGED <<storeVars, pageVars, clientVars, configVars, tenantVars, statsVars, caller,
                 teamMembers, proteinInventory, inventoryItems, animation>>

\* the timer fires: searchAddresses(query) runs up to its first await
SearchAddresses ==
  /\ autocomplete.searchTimeout.set
  /\ LET query == autocomplete.searchTimeout.value
     IN  IF Len(query) < 3
         THEN autocomplete' = [autocomplete EXCEPT !.searchTimeout = NoTimeout,
                                                   !.addressSuggestions = NoSuggestions,
                                                   !.showSuggestions = FALSE]
         ELSE /\ Len(autocomplete.lookups) < MaxLookups
              /\ autocomplete' = [autocomplete EXCEPT !.searchTimeout = NoTimeout,
                                                      !.lookups = Append(@, query)]
  /\ UNCHANGED <<storeVars, pageVars, clientVars, configVars, tenantVars, statsVars, caller,
                 teamMembers, proteinInventory, inventoryItems, animation>>

\* the responses of a lookup have arrived: setAddressSuggestions(suggestions)
LookupAnswered ==
  /\ \E i \in 1..Len(autocomplete.lookups) :
       autocomplete' = [autocomplete EXCEPT
                          !.lookups = RemoveAt(@, i),
                          !.addressSuggestions = SuggestionsFor(autocomplete.lookups[i]),
                          !.showSuggestions = TRUE]
  /\ UNCHANGED <<storeVars, pageVars, clientVars, configVars, tenantVars, statsVars, caller,
                 teamMembers, proteinInventory, inventoryItems, animation>>

\* a fetch of the lookup has failed: the catch block empties the suggestions
LookupFailed ==
  /\ \E i \in 1..Len(autocomplete.lookups) :
       autocomplete' = [autocomplete EXCEPT !.lookups = RemoveAt(@, i),
                                            !.addressSuggestions = NoSuggestions,
                                            !.showSuggestions = FALSE]
  /\ UNCHANGED <<storeVars, pageVars, clientVars, configVars, tenantVars, statsVars, caller,
                 teamMembers, proteinInventory, inventoryItems, animation>>

\* the token response carries no token: searchAddresses returns as it is
LookupWithoutToken ==
  /\ \E i \in 1..Len(autocomplete.lookups) :
       autocomplete' = [autocomplete EXCEPT !.lookups = RemoveAt(@, i)]
  /\ UNCHANGED <<storeVars, pageVars, clientVars, configVars, tenantVars, statsVars, caller,
                 teamMembers, proteinInventory, inventoryItems, animation>>

\* handleSuggestionSelect(suggestion, onChange)
HandleSuggestionSelect ==
  /\ autocomplete.showSuggestions
  /\ \E k \in 1..Len(autocomplete.addressSuggestions) :
       autocomplete' = [autocomplete EXCEPT
                          !.value = autocomplete.addressSuggestions[k].address,
                          !.showSuggestions = FALSE,
                          !.addressSuggestions = NoSuggestions]
  /\ UNCHANGED <<storeVars, pageVars, clientVars, configVars, tenantVars, statsVars, caller,
                 teamMembers, proteinInventory, inventoryItems, animation>>

(***************************************************************************)
(* ReviewSubmissionAnimation (client/src/components/loading-animations.tsx).*)
(* Its effect depends on [isLoading, onComplete]: when either changes, the  *)
(* cleanup of the last run clears the three timers and the effect runs      *)
(* again.  The timers are set together for 500, 1500 and 2500 ms, so the    *)
(* pending one with the least number fires first.  onComplete is the        *)
(* serial of the function passed; completed counts its calls since          *)
(* isLoading last became true.                                              *)
(***************************************************************************)
Timers == {1, 2, 3}

NotLoading ==
  [isLoading |-> FALSE, onComplete |-> 0, stage |-> 0, timers |-> {}, completed |-> 0]

\* the effect of a render with the given props, after the cleanup of the
\* run before it
useEffectStage(a, isLoading, onComplete) ==
  IF ~isLoading
  THEN [a EXCEPT !.isLoading = FALSE, !.onComplete = onComplete, !.stage = 0, !.timers = {}]
  ELSE [a EXCEPT !.isLoading = TRUE, !.onComplete = onComplete, !.timers = Timers]

\* the parent renders the component with isLoading = true
StartLoading ==
  /\ ~animation.isLoading
  /\ animation' = [useEffectStage(animation, TRUE, animation.onComplete) EXCEPT !.completed = 0]
  /\ UNCHANGED <<storeVars, pageVars, clientVars, configVars, tenantVars, statsVars, caller,
                 teamMembers, proteinInventory, inventoryItems, autocomplete>>

\* the parent renders the component with isLoading = false
StopLoading ==
  /\ animation.isLoading
  /\ animation' = useEffectStage(animation, FALSE, animation.onComplete)
  /\ UNCHANGED <<storeVars, pageVars, clientVars, configVars, tenantVars, statsVars, caller,
                 teamMembers, proteinInventory, inventoryItems, autocomplete>>

\* the parent renders the component with a new onComplete function
RenderWithNewOnComplete ==
  /\ animation.onComplete < MaxRenders
  /\ animation' = useEffectStage(animation, animation.isLoading, animation.onComplete + 1)
  /\ UNCHANGED <<storeVars, pageVars, clientVars, configVars, tenantVars, statsVars, caller,
                 teamMembers, proteinInventory, inventoryItems, autocomplete>>

\* the next timer fires: setStage(1), setStage(2), or setStage(3) with
\* onComplete?.()
TimerFires ==
  /\ animation.timers # {}
  /\ LET timer == CHOOSE k \in animation.timers : \A other \in animation.timers : k <= other
     IN  animation' = [animation EXCEPT !.stage = timer, !.timers = @ \ {timer},
                                        !.completed = IF timer = 3 THEN @ + 1 ELSE @]
  /\ UNCHANGED <<storeVars, pageVars, clientVars, configVars, tenantVars, statsVars, caller,
                 teamMembers, proteinInventory, inventoryItems, autocomplete>>

(***************************************************************************)
(* API base URL (client/src/lib/config.ts).                                *)
(***************************************************************************)
RECURSIVE StringsUpTo(_, _)
\* the strings of at most n characters of the alphabet
StringsUpTo(alphabet, n) ==
  IF n = 0 THEN {""}
  ELSE LET shorter == StringsUpTo(alphabet, n - 1)
       IN  shorter \cup {s \o c : s \in shorter, c \in alphabet}

\* values of VITE_API_BASE_URL at build time: not set, empty, or a text
BaseUrls ==
  StringsUpTo({"h", "/"}, MaxBaseLen)
    \cup {"https://api.example.com", "https://api.example.com/", "http://localhost:3000"}

EnvValues == {Undefined} \cup {Str(s) : s \in BaseUrls}

\* arguments of getApiUrl
Endpoints ==
  StringsUpTo({"a", "/"}, MaxEndpointLen) \cup {"api/food-truck", "/api/food-truck"}

NoApiCall == [called |-> FALSE, endpoint |-> "", url |-> ""]

\* a || b
OrElse(a, b) == IF Truthy(a) THEN a ELSE b

API_CONFIG == [baseUrl |-> OrElse(viteApiBaseUrl, Str("http://localhost:8000"))]

\* s.startsWith('/'), s.endsWith('/'), s.slice(1), s.slice(0, -1)
startsWithSlash(s) == Len(s) >= 1 /\ SubSeq(s, 1, 1) = "/"

endsWithSlash(s) == Len(s) >= 1 /\ SubSeq(s, Len(s), Len(s)) = "/"

sliceFirst(s) == IF Len(s) <= 1 THEN "" ELSE SubSeq(s, 2, Len(s))

sliceLast(s) == IF Len(s) <= 1 THEN "" ELSE SubSeq(s, 1, Len(s) - 1)

\* as getApiUrl, but with the base URL taken as configured
getApiUrlRawBase(endpoint) ==
  LET cleanEndpoint == IF startsWithSlash(endpoint) THEN sliceFirst(endpoint) ELSE endpoint
  IN  IF Truthy(API_CONFIG.baseUrl)
      THEN API_CONFIG.baseUrl.v \o "/" \o cleanEndpoint
      ELSE "/" \o cleanEndpoint

getApiUrl(endpoint) ==
  LET cleanEndpoint == IF startsWithSlash(endpoint) THEN sliceFirst(endpoint) ELSE endpoint
  IN  IF Truthy(API_CONFIG.baseUrl)
      THEN LET cleanBaseUrl == IF endsWithSlash(API_CONFIG.baseUrl.v)
                               THEN sliceLast(API_CONFIG.baseUrl.v)
                               ELSE API_CONFIG.baseUrl.v
           IN  cleanBaseUrl \o "/" \o cleanEndpoint
      ELSE "/" \o cleanEndpoint

\* a component builds the URL of a request
GetApiUrl ==
  /\ \E endpoint \in Endpoints :
       apiCall' = [called |-> TRUE, endpoint |-> endpoint, url |-> getApiUrl(endpoint)]
  /\ UNCHANGED <<storeVars, pageVars, clientVars, tenantVars, statsVars, viteApiBaseUrl, caller, teamMembers, proteinInventory, inventoryItems, autocomplete, animation>>

(***************************************************************************)
(* Organizations and trucks (server/routes.ts, server/storage.ts).         *)
(***************************************************************************)
\* req.user.claims.sub of the signed-in users
Users == {"u1", "u2"}

\* requests of POST /api/food-truck that can be between two awaits at once
Slots == {1, 2}

\* req.body of POST /api/organization, /api/trucks and /api/food-truck: with
\* or without a name, and one with the owner, organization and truck of
\* user u2 written into it (claims: the user the body names, 0 for none).
\* The rows keep the columns the handlers decide: id and the owning record.
TenantBodies ==
  [name : {Str("T"), Undefined}, ownerId : {Undefined}, organizationId : {Undefined},
   truckId : {Undefined}, claims : {0}]
  \cup
  {[name |-> Str("T"), ownerId |-> Str("u2"), organizationId |-> Num(2),
    truckId |-> Num(2), claims |-> 2]}

NoBody ==
  [name |-> Undefined, ownerId |-> Undefined, organizationId |-> Undefined,
   truckId |-> Undefined, claims |-> 0]

NoRequest ==
  [pc |-> "idle", userId |-> "", body |-> NoBody, organizationId |-> 0, created |-> FALSE]

NothingDone == [status |-> 0, wrote |-> FALSE, claims |-> 0]

\* requests of POST /api/food-truck that have not been answered yet
InflightCount == Cardinality({slot \in Slots : inflight[slot].pc # "idle"})

\* insertOrganizationSchema.parse(data)
insertOrganizationSchema(data) == IsStr(data.name) /\ IsStr(data.ownerId)

\* insertFoodTruckSchema.parse(data)
insertFoodTruckSchema(data) == IsNum(data.organizationId) /\ IsStr(data.name)

\* the ids of the rows that `const [org] = await db.select()...where(ownerId)`
\* can give (the query has no ORDER BY); 0 stands for undefined
getOrganizationByOwnerId(ownerId) ==
  LET found == {organizations[i].id : i \in {j \in DOMAIN organizations :
                                              organizations[j].ownerId = ownerId}}
  IN  IF found = {} THEN {0} ELSE found

createOrganization(orgData) ==
  Append(organizations, [id |-> Len(organizations) + 1, ownerId |-> orgData.ownerId.v])

createFoodTruck(truck) ==
  Append(foodTrucks,
         [id |-> Len(foodTrucks) + 1, organizationId |-> truck.organizationId.v])

\* as withOwnerId, but with the body spread last: { ownerId: userId, ...req.body }
withOwnerIdUnlessGiven(body, userId) ==
  [body EXCEPT !.ownerId = IF IsUndefined(@) THEN Str(userId) ELSE @]

\* { ...req.body, ownerId: userId }
withOwnerId(body, userId) == [body EXCEPT !.ownerId = Str(userId)]

\* { ...req.body, organizationId: organization.id }
withOrganizationId(body, organizationId) ==
  [body EXCEPT !.organizationId = Num(organizationId)]

\* what an answered request leaves in lastDone
Answered(status, body) ==
  [status |-> status,
   wrote |-> organizations' # organizations \/ foodTrucks' # foodTrucks,
   claims |-> body.claims]

\* POST /api/organization
PostOrganization ==
  /\ Len(organizations) + InflightCount < MaxOrganizations
  /\ \E userId \in Users, body \in TenantBodies :
       LET orgData == withOwnerId(body, userId)
       IN  /\ IF insertOrganizationSchema(orgData)
              THEN organizations' = createOrganization(orgData) /\ res' = 200
              ELSE organizations' = organizations /\ res' = 500
           /\ foodTrucks' = foodTrucks
           /\ lastDone' = Answered(res', body)
           /\ caller' = userId
  /\ UNCHANGED <<orders, reviews, locations, nextLocationId, today, pageVars, clientVars,
                 configVars, statsVars, inflight, teamMembers, proteinInventory, inventoryItems, autocomplete, animation>>

\* POST /api/trucks
PostTruck ==
  /\ Len(foodTrucks) + InflightCount < MaxTrucks
  /\ \E userId \in Users, body \in TenantBodies :
     \E organizationId \in getOrganizationByOwnerId(userId) :
       LET truckData == withOrganizationId(body, organizationId)
       IN  /\ IF organizationId = 0
              THEN foodTrucks' = foodTrucks /\ res' = 400
              ELSE IF insertFoodTruckSchema(truckData)
                   THEN foodTrucks' = createFoodTruck(truckData) /\ res' = 200
                   ELSE foodTrucks' = foodTrucks /\ res' = 500
           /\ organizations' = organizations
           /\ lastDone' = Answered(res', body)
           /\ caller' = userId
  /\ UNCHANGED <<orders, reviews, locations, nextLocationId, today, pageVars, clientVars,
                 configVars, statsVars, inflight, teamMembers, proteinInventory, inventoryItems, autocomplete, animation>>

\* POST /api/food-truck, up to the answer of
\* `await storage.getOrganizationByOwnerId(userId)`
FoodTruckLookup ==
  /\ Len(organizations) + InflightCount < MaxOrganizations
  /\ Len(foodTrucks) + InflightCount < MaxTrucks
  /\ \E slot \in Slots, userId \in Users, body \in TenantBodies :
     \E organizationId \in getOrganizationByOwnerId(userId) :
       /\ inflight[slot].pc = "idle"
       /\ inflight' = [inflight EXCEPT ![slot] =
                         [pc |-> "found", userId |-> userId, body |-> body,
                          organizationId |-> organizationId, created |-> FALSE]]
       /\ caller' = userId
  /\ UNCHANGED <<storeVars, pageVars, clientVars, configVars, statsVars, organizations, foodTrucks,
                 lastDone, teamMembers, proteinInventory, inventoryItems, autocomplete, animation>>

\* POST /api/food-truck: `if (!organization) organization = await
\* storage.createOrganization(...)`
FoodTruckEnsureOrganization ==
  /\ \E slot \in Slots :
       LET request == inflight[slot]
           orgData == [name |-> Str(TemplateString(OrElse(request.body.name, Str("My")))
                                      \o " Organization"),
                       ownerId |-> Str(request.userId)]
       IN  /\ request.pc = "found"
           /\ request.organizationId = 0
           /\ organizations' = createOrganization(orgData)
           /\ inflight' = [inflight EXCEPT ![slot] =
                             [request EXCEPT !.pc = "ready",
                                             !.organizationId = Len(organizations) + 1,
                                             !.created = TRUE]]
           /\ caller' = request.userId
  /\ UNCHANGED <<storeVars, pageVars, clientVars, configVars, statsVars, foodTrucks, lastDone,
                 teamMembers, proteinInventory, inventoryItems, autocomplete, animation>>

\* POST /api/food-truck: insertFoodTruckSchema.parse, createFoodTruck and the
\* answer (200, or 500 from the catch)
FoodTruckCreate ==
  /\ \E slot \in Slots :
       LET request == inflight[slot]
           truckData == withOrganizationId(request.body, request.organizationId)
       IN  /\ \/ request.pc = "found" /\ request.organizationId # 0
              \/ request.pc = "ready"
           /\ IF insertFoodTruckSchema(truckData)
              THEN /\ foodTrucks' = createFoodTruck(truckData)
                   /\ res' = 200
                   /\ lastDone' = [status |-> 200, wrote |-> TRUE,
                                   claims |-> request.body.claims]
              ELSE /\ foodTrucks' = foodTrucks
                   /\ res' = 500
                   /\ lastDone' = [status |-> 500, wrote |-> request.created,
                                   claims |-> request.body.claims]
           /\ inflight' = [inflight EXCEPT ![slot] = NoRequest]
           /\ caller' = request.userId
  /\ UNCHANGED <<orders, reviews, locations, nextLocationId, today, pageVars, clientVars,
                 configVars, statsVars, organizations, teamMembers, proteinInventory, inventoryItems, autocomplete, animation>>

\* POST /api/food-truck handled with no other request in between
PostFoodTruck ==
  /\ Len(organizations) < MaxOrganizations
  /\ Len(foodTrucks) < MaxTrucks
  /\ \A slot \in Slots : inflight[slot].pc = "idle"
  /\ \E userId \in Users, body \in TenantBodies :
     \E found \in getOrganizationByOwnerId(userId) :
       LET orgData == [name |-> Str(TemplateString(OrElse(body.name, Str("My")))
                                      \o " Organization"),
                       ownerId |-> Str(userId)]
           organizationId == IF found = 0 THEN Len(organizations) + 1 ELSE found
           truckData == withOrganizationId(body, organizationId)
       IN  /\ organizations' = IF found = 0 THEN createOrganization(orgData)
                               ELSE organizations
           /\ IF insertFoodTruckSchema(truckData)
              THEN foodTrucks' = createFoodTruck(truckData) /\ res' = 200
              ELSE foodTrucks' = foodTrucks /\ res' = 500
           /\ lastDone' = Answered(res', body)
           /\ caller' = userId
  /\ UNCHANGED <<orders, reviews, locations, nextLocationId, today, pageVars, clientVars,
                 configVars, statsVars, inflight, teamMembers, proteinInventory, inventoryItems, autocomplete, animation>>

\* POST /api/inventory, PUT and DELETE /api/inventory/:id
LegacyInventory ==
  /\ res' = 501
  /\ organizations' = organizations
  /\ foodTrucks' = foodTrucks
  /\ lastDone' = Answered(res', NoBody)
  /\ UNCHANGED <<orders, reviews, locations, nextLocationId, today, pageVars, clientVars,
                 configVars, statsVars, inflight, caller, teamMembers, proteinInventory, inventoryItems, autocomplete, animation>>

\* rows table inventory_items may hold: of either truck, below or above
\* their threshold
StoredInventoryItems ==
  [truckId : TruckIds, currentStock : {Str("3.50"), Num(7)}, lowStockThreshold : {Str("5.00")}]

\* storage.getInventoryByTruckId
getInventoryByTruckId(truckId) ==
  SelectSeq(inventoryItems, LAMBDA item : item.truckId = truckId)

\* as getInventory, but answering with the stored rows of the truck
getInventoryFromStore(truckId) == getInventoryByTruckId(truckId)

\* the body GET /api/inventory/:truckId answers with: res.json([])
getInventory(truckId) == <<>>

\* the Dashboard's query ["/api/inventory", foodTruck.id] is answered by
\* GET /api/inventory/:truckId
GetInventory ==
  /\ \E truckId \in TruckIds : inventory' = getInventory(truckId)
  /\ res' = 200
  /\ rendered' = FALSE
  /\ UNCHANGED <<orders, reviews, locations, nextLocationId, today, lowStockItems, protein,
                 usagePercent, isLow, items, formatted, clientVars, configVars, tenantVars,
                 statsVars, caller, teamMembers, proteinInventory, inventoryItems, autocomplete,
                 animation>>

(***************************************************************************)
(* Team members, the truck of a user, and POST /api/protein-inventory.     *)
(* A lookup that takes the first row of a select without ORDER BY can give *)
(* any of the matching rows; 0 stands for undefined.                       *)
(***************************************************************************)
\* req.body of POST /api/team-members
TeamMemberBodies ==
  [organizationId : {Num(1)}, userId : {Str(u) : u \in Users},
   truckId : {Null} \cup {Num(k) : k \in TruckIds}, firstName : {Str("Ana")}]
  \cup {[organizationId |-> Num(1), userId |-> Str("u1"), truckId |-> Num(1),
          firstName |-> Undefined]}

\* insertTeamMemberSchema.parse(body)
insertTeamMemberSchema(body) ==
  /\ IsNum(body.organizationId)
  /\ IsStr(body.userId)
  /\ (IsNullish(body.truckId) \/ IsNum(body.truckId))
  /\ IsStr(body.firstName) /\ Len(body.firstName.v) >= 1

\* storage.addTeamMember
addTeamMember(memberData) ==
  Append(teamMembers,
         [id |-> Len(teamMembers) + 1, organizationId |-> memberData.organizationId.v,
          userId |-> memberData.userId.v,
          truckId |-> IF IsNullish(memberData.truckId) THEN 0 ELSE memberData.truckId.v])

\* POST /api/team-members
PostTeamMember ==
  /\ Len(teamMembers) < MaxTeamMembers
  /\ \E userId \in Users, body \in TeamMemberBodies :
       /\ IF insertTeamMemberSchema(body)
          THEN teamMembers' = addTeamMember(body) /\ res' = 200
          ELSE teamMembers' = teamMembers /\ res' = 500
       /\ caller' = userId
  /\ UNCHANGED <<orders, reviews, locations, nextLocationId, today, pageVars, clientVars,
                 configVars, tenantVars, statsVars, proteinInventory, inventoryItems, autocomplete, animation>>

\* storage.getFoodTrucksByOrganizationId: the ids of the organization's trucks
getFoodTrucksByOrganizationId(organizationId) ==
  {foodTrucks[i].id : i \in {j \in DOMAIN foodTrucks :
                               foodTrucks[j].organizationId = organizationId}}

\* storage.getTeamMemberByUserId: the truckId of a row found, -1 for no row
getTeamMemberByUserId(userId) ==
  LET found == {teamMembers[i].truckId : i \in {j \in DOMAIN teamMembers :
                                                teamMembers[j].userId = userId}}
  IN  IF found = {} THEN {-1} ELSE found

\* select().from(foodTrucks).where(eq(foodTrucks.id, truckId))
truckById(truckId) ==
  IF \E i \in DOMAIN foodTrucks : foodTrucks[i].id = truckId THEN truckId ELSE 0

\* as getFoodTruckByUserId, but with the team-member assignment looked at first
getFoodTruckByUserIdMemberFirst(userId) ==
  UNION {IF truckId > 0
         THEN {truckById(truckId)}
         ELSE UNION {IF organizationId # 0
                     THEN IF getFoodTrucksByOrganizationId(organizationId) = {}
                          THEN {0}
                          ELSE getFoodTrucksByOrganizationId(organizationId)
                     ELSE {0} :
                       organizationId \in getOrganizationByOwnerId(userId)} :
           truckId \in getTeamMemberByUserId(userId)}

\* storage.getFoodTruckByUserId: the ids of the trucks it can return
getFoodTruckByUserId(userId) ==
  UNION {IF organizationId # 0
         THEN IF getFoodTrucksByOrganizationId(organizationId) = {}
              THEN {0}
              ELSE getFoodTrucksByOrganizationId(organizationId)
         ELSE {IF truckId > 0 THEN truckById(truckId) ELSE 0 :
                 truckId \in getTeamMemberByUserId(userId)} :
           organizationId \in getOrganizationByOwnerId(userId)}

\* GET /api/food-truck: the body of the response is the truck found
GetFoodTruck ==
  /\ \E userId \in Users : res' = 200 /\ caller' = userId
  /\ UNCHANGED <<orders, reviews, locations, nextLocationId, today, pageVars, clientVars,
                 configVars, tenantVars, statsVars, teamMembers, proteinInventory, inventoryItems, autocomplete, animation>>

\* req.body of POST /api/protein-inventory (the amounts are taken to be given)
ProteinBodies ==
  [proteinType : {Str("pork"), Undefined},
   truckId : {Undefined} \cup {Num(k) : k \in TruckIds}]

\* insertProteinInventorySchema.parse(data)
insertProteinInventorySchema(data) == IsNum(data.truckId) /\ IsStr(data.proteinType)

\* { ...req.body, truckId: truck.id }
withTruckId(body, truckId) == [body EXCEPT !.truckId = Num(truckId)]

\* POST /api/protein-inventory. DatabaseStorage declares no
\* createProteinInventory (the IStorage interface names it, the class has no
\* such method), so the call at routes.ts 521 throws a TypeError, the catch
\* answers 500 and no row is ever stored.
PostProteinInventory ==
  /\ \E userId \in Users, body \in ProteinBodies :
     \E truck \in getFoodTruckByUserId(userId) :
       LET inventoryData == withTruckId(body, truck)
       IN  /\ res' = IF truck = 0 THEN 400
                     ELSE IF insertProteinInventorySchema(inventoryData) THEN 500 ELSE 500
           /\ proteinInventory' = proteinInventory
           /\ caller' = userId
  /\ UNCHANGED <<orders, reviews, locations, nextLocationId, today, pageVars, clientVars,
                 configVars, tenantVars, statsVars, teamMembers, inventoryItems, autocomplete, animation>>

(***************************************************************************)
(* Requests with and without a session (isAuthenticated, server/routes.ts). *)
(***************************************************************************)
NoSession == "anonymous"

\* the routes registered with isAuthenticated that write to the store
GuardedRoutes ==
  {"POST /api/organization", "POST /api/team-members", "POST /api/trucks",
   "POST /api/food-truck", "POST /api/locations", "PUT /api/locations/:id",
   "DELETE /api/locations/:id", "POST /api/protein-inventory",
   "PUT /api/protein-inventory/:id", "DELETE /api/protein-inventory/:id",
   "POST /api/menu-items", "POST /api/orders", "PUT /api/orders/:id"}

\* isAuthenticated answers a request without a session itself
RefusedWithoutSession ==
  /\ \E route \in GuardedRoutes : res' = 401
  /\ caller' = NoSession
  /\ UNCHANGED <<orders, reviews, locations, nextLocationId, today, pageVars, clientVars,
                 configVars, tenantVars, statsVars, teamMembers, proteinInventory, inventoryItems, autocomplete, animation>>

AuthReviewBodies ==
  [truckId : {Num(1)}, customerName : {Str("Ana")}, rating : {Num(4), Num(5)}]
    \cup {[truckId |-> Num(1), customerName |-> Undefined, rating |-> Num(5)]}

\* app.post('/api/reviews', async (req, res) => ...): no middleware before
\* the handler
routeReviews(userId, body) == postReview(body)

\* POST /api/reviews sent by userId, or without a session
PostReviewAs ==
  /\ Len(reviews) < MaxReviews
  /\ \E userId \in Users \cup {NoSession}, body \in AuthReviewBodies :
       LET post == routeReviews(userId, body)
       IN  reviews' = post.reviews /\ res' = post.res /\ caller' = userId
  /\ UNCHANGED <<orders, locations, nextLocationId, today, pageVars, clientVars,
                 configVars, tenantVars, statsCall, teamMembers, proteinInventory, inventoryItems, autocomplete, animation>>
  /\ Observed

(***************************************************************************)
(* Location requests of two tenants (server/routes.ts, location routes):   *)
(* the handlers as above, with the user who sends each request.            *)
(***************************************************************************)
TenantLocationBodies ==
  [truckId : {Num(k) : k \in TruckIds}, name : {Str("Plaza")},
   address : {Str("1 Main St")}, isActive : {Bool(TRUE)}]

TenantLocationPatches ==
  [truckId : {Undefined}, name : {Undefined}, address : {Undefined},
   isActive : {Bool(TRUE), Bool(FALSE)}]

\* POST /api/locations sent by userId
PostLocationAs ==
  /\ nextLocationId <= MaxLocations
  /\ \E userId \in Users, body \in TenantLocationBodies :
       LET post == postLocation(body)
       IN  /\ locations' = post.locations
           /\ nextLocationId' = post.nextLocationId
           /\ res' = post.res
           /\ caller' = userId
  /\ UNCHANGED <<orders, reviews, today, pageVars, clientVars, configVars, tenantVars,
                 statsCall, teamMembers, proteinInventory, inventoryItems, autocomplete, animation>>
  /\ Observed

\* PUT /api/locations/:id sent by userId
PutLocationAs ==
  /\ \E userId \in Users, id \in 1..MaxLocations, body \in TenantLocationPatches :
       LET put == putLocation(id, body)
       IN  locations' = put.locations /\ res' = put.res /\ caller' = userId
  /\ UNCHANGED <<orders, reviews, nextLocationId, today, pageVars, clientVars, configVars,
                 tenantVars, statsCall, teamMembers, proteinInventory, inventoryItems, autocomplete, animation>>
  /\ Observed

\* DELETE /api/locations/:id sent by userId
DeleteLocationAs ==
  /\ \E userId \in Users, id \in 1..MaxLocations :
       locations' = deleteLocation(id) /\ res' = 200 /\ caller' = userId
  /\ UNCHANGED <<orders, reviews, nextLocationId, today, pageVars, clientVars, configVars,
                 tenantVars, statsCall, teamMembers, proteinInventory, inventoryItems, autocomplete, animation>>
  /\ Observed

(***************************************************************************)
(* Specifications: the store starts empty; each specification issues the   *)
(* requests of one resource.                                               *)
(***************************************************************************)
vars ==
  <<storeVars, pageVars, clientVars, configVars, tenantVars, statsVars, caller, teamMembers,
    proteinInventory, inventoryItems, autocomplete, animation>>

\* no page has been given anything to render
NoPage ==
  /\ inventory = <<>>
  /\ lowStockItems = <<>>
  /\ protein = Null
  /\ usagePercent = Num(0)
  /\ isLow = FALSE
  /\ items = Undefined
  /\ formatted = Undefined
  /\ rendered = FALSE

\* no organization, truck or team member yet
NoTenants ==
  /\ organizations = <<>>
  /\ foodTrucks = <<>>
  /\ teamMembers = <<>>
  /\ proteinInventory = <<>>

\* two users, each the owner of one organization with one truck
TwoTenants ==
  /\ organizations = <<[id |-> 1, ownerId |-> "u1"], [id |-> 2, ownerId |-> "u2"]>>
  /\ foodTrucks = <<[id |-> 1, organizationId |-> 1], [id |-> 2, organizationId |-> 2]>>
  /\ teamMembers = <<>>
  /\ proteinInventory = <<>>

\* no order, review or location, and no request under way
NoRecords ==
  /\ orders = <<>>
  /\ reviews = <<>>
  /\ locations = <<>>
  /\ nextLocationId = 1
  /\ today = 0
  /\ res = 0
  /\ inflight = [slot \in Slots |-> NoRequest]
  /\ lastDone = NothingDone
  /\ statsCall = NoStatsCall
  /\ seen = {}
  /\ caller = "u1"

\* table inventory_items is empty
NoLegacyRows == inventoryItems = <<>>

EmptyStore == NoRecords /\ NoTenants /\ NoLegacyRows

\* a freshly loaded client: nothing cached, nothing sent
ColdCache ==
  /\ cache = [k \in QueryKeys |-> [valid |-> FALSE, outdated |-> FALSE, data |-> <<>>]]
  /\ pending = Idle
  /\ served = NothingServed
  /\ issued = 0

\* a build without VITE_API_BASE_URL; getApiUrl not called yet
UnsetConfig == viteApiBaseUrl = Undefined /\ apiCall = NoApiCall

ColdClient == foodTruck = 1 /\ ColdCache /\ UnsetConfig /\ autocomplete = NoAddressSearch /\ animation = NotLoading

Init == EmptyStore /\ NoPage /\ ColdClient

NextOrders == PostOrder \/ PutOrder \/ Tick

SpecOrders == Init /\ [][NextOrders]_vars

NextDashboard == PostOrder \/ PutOrder \/ Tick \/ GetDashboardStats

SpecDashboard == Init /\ [][NextDashboard]_vars

NextStats ==
  \/ PostStatsOrder
  \/ PostStatsReview
  \/ StatsReadOrders
  \/ StatsReadReviews
  \/ StatsReadLocations

SpecStats == Init /\ [][NextStats]_vars

NextAuth == RefusedWithoutSession \/ PostReviewAs

SpecAuth == Init /\ [][NextAuth]_vars

InitIsolation == NoRecords /\ TwoTenants /\ NoLegacyRows /\ NoPage /\ ColdClient

NextIsolation == PostLocationAs \/ PutLocationAs \/ DeleteLocationAs

SpecIsolation == InitIsolation /\ [][NextIsolation]_vars

InitLegacy ==
  /\ NoRecords
  /\ NoTenants
  /\ inventoryItems \in SeqsUpTo(StoredInventoryItems, MaxItems)
  /\ NoPage
  /\ ColdClient

NextLegacy == GetInventory \/ LegacyInventory \/ RenderInventory

SpecLegacy == InitLegacy /\ [][NextLegacy]_vars

NextAutocomplete ==
  \/ HandleAddressChange
  \/ SearchAddresses
  \/ LookupAnswered
  \/ LookupFailed
  \/ LookupWithoutToken
  \/ HandleSuggestionSelect

SpecAutocomplete == Init /\ [][NextAutocomplete]_vars

NextAnimation == StartLoading \/ StopLoading \/ RenderWithNewOnComplete \/ TimerFires

SpecAnimation == Init /\ [][NextAnimation]_vars

NextOwnership == PostOrganization \/ PostTruck \/ PostFoodTruck \/ PostProteinInventory

SpecOwnership == Init /\ [][NextOwnership]_vars

\* the tables of organizations, trucks and team members the routes can leave:
\* ids are serial, a truck belongs to a stored organization, a team member
\* names whatever truck its request named
TenantTables ==
  /\ organizations \in
       {[i \in 1..Len(owners) |-> [id |-> i, ownerId |-> owners[i]]] :
          owners \in SeqsUpTo(Users, MaxOrganizations)}
  /\ foodTrucks \in
       {[i \in 1..Len(of) |-> [id |-> i, organizationId |-> of[i]]] :
          of \in SeqsUpTo(1..Len(organizations), MaxTrucks)}
  /\ teamMembers \in
       {[i \in 1..Len(rows) |->
           [id |-> i, organizationId |-> 1, userId |-> rows[i][1], truckId |-> rows[i][2]]] :
          rows \in SeqsUpTo(Users \X (0..MaxTrucks), MaxTeamMembers)}
  /\ proteinInventory = <<>>

InitTruckLookup == NoRecords /\ TenantTables /\ NoLegacyRows /\ NoPage /\ ColdClient

NextTruckLookup == PostTeamMember \/ GetFoodTruck

SpecTruckLookup == InitTruckLookup /\ [][NextTruckLookup]_vars

NextOrderList == PostListedOrder \/ Tick

SpecOrderList == Init /\ [][NextOrderList]_vars

InitClient ==
  /\ EmptyStore /\ NoPage /\ ColdCache /\ UnsetConfig
  /\ foodTruck \in TruckIds
  /\ autocomplete = NoAddressSearch /\ animation = NotLoading

NextClient ==
  \/ ReadQuery
  \/ CreateLocationMutation
  \/ UpdateLocationMutation
  \/ DeleteLocationMutation
  \/ CreateReviewMutation
  \/ Settle

SpecClient == InitClient /\ [][NextClient]_vars

\* the response of a sent mutation arrives, and the Dashboard, once mounted,
\* keeps reading its statistics query
SpecClientFair ==
  /\ SpecClient
  /\ WF_vars(Settle)
  /\ WF_vars(ReadQueryOf("/api/dashboard-stats"))

InitApiUrl ==
  /\ EmptyStore
  /\ NoPage
  /\ foodTruck = 1
  /\ ColdCache
  /\ viteApiBaseUrl \in EnvValues
  /\ apiCall = NoApiCall
  /\ autocomplete = NoAddressSearch /\ animation = NotLoading

NextApiUrl == GetApiUrl

SpecApiUrl == InitApiUrl /\ [][NextApiUrl]_vars

NextTenants ==
  \/ PostOrganization
  \/ PostTruck
  \/ FoodTruckLookup
  \/ FoodTruckEnsureOrganization
  \/ FoodTruckCreate
  \/ LegacyInventory

SpecTenants == Init /\ [][NextTenants]_vars

NextReviews == PostReview

SpecReviews == Init /\ [][NextReviews]_vars

NextLocations == PostLocation \/ PutLocation \/ DeleteLocation

SpecLocations == Init /\ [][NextLocations]_vars

InitInventory ==
  /\ EmptyStore
  /\ ColdClient
  /\ inventory \in InventoryLists
  /\ lowStockItems = <<>>
  /\ protein = Null
  /\ usagePercent = Num(0)
  /\ isLow = FALSE
  /\ items = Undefined
  /\ formatted = Undefined
  /\ rendered = FALSE

NextInventory == RenderInventory

SpecInventory == InitInventory /\ [][NextInventory]_vars

InitProtein ==
  /\ EmptyStore
  /\ ColdClient
  /\ inventory = <<>>
  /\ lowStockItems = <<>>
  /\ protein \in ProteinRecords
  /\ usagePercent = Num(0)
  /\ isLow = FALSE
  /\ items = Undefined
  /\ formatted = Undefined
  /\ rendered = FALSE

NextProtein == RenderProtein

SpecProtein == InitProtein /\ [][NextProtein]_vars

InitOrderItems ==
  /\ EmptyStore
  /\ ColdClient
  /\ inventory = <<>>
  /\ lowStockItems = <<>>
  /\ protein = Null
  /\ usagePercent = Num(0)
  /\ isLow = FALSE
  /\ items \in ItemsInputs
  /\ formatted = Undefined
  /\ rendered = FALSE

NextOrderItems == RenderOrderItems

SpecOrderItems == InitOrderItems /\ [][NextOrderItems]_vars

(***************************************************************************)
(* Claims.                                                                 *)
(***************************************************************************)
RECURSIVE SumOverSet(_, _)
SumOverSet(f(_), S) ==
  IF S = {} THEN 0
  ELSE LET x == CHOOSE y \in S : TRUE IN f(x) + SumOverSet(f, S \ {x})

\* rows of orders that belong to truck t and are completed
CompletedOf(t) ==
  {i \in 1..Len(orders) : orders[i].truckId = t /\ orders[i].status = "completed"}

RoundHalfAway(p, q) ==
  IF p >= 0 THEN (2 * p + q) \div (2 * q) ELSE 0 - ((2 * (0 - p) + q) \div (2 * q))

\* C2: averageRating is 0 for a truck without reviews and otherwise the mean
\* of the ratings rounded to one decimal, half away from zero on mean * 10;
\* rounding the returned value again returns it.
C2_AverageRatingHalfAway ==
  \A t \in TruckIds :
    LET rows == {i \in 1..Len(reviews) : reviews[i].truckId = t}
        ratingAt(i) == reviews[i].rating
        avg == getDashboardStats(t).averageRating
    IN  /\ rows = {} => avg = 0
        /\ rows # {} =>
             avg = RoundHalfAway(10 * SumOverSet(ratingAt, rows), Cardinality(rows))
        /\ RoundHalfAway(10 * avg, 10) = avg

C4_UsagePercentage ==
  rendered =>
    LET used == ToNumber(protein.usedAmount)
        allocated == ToNumber(protein.allocatedAmount)
    IN  /\ usagePercent.k = "num"
        /\ usagePercent.den # 0
        /\ allocated.c > 0 =>
             usagePercent.num * allocated.c = used.c * 100 * usagePercent.den
        /\ allocated.c <= 0 => usagePercent.num = 0

\* a record with nothing allocated and something used shows 0
C4_Witness ==
  /\ rendered
  /\ protein.allocatedAmount = Str("0.00")
  /\ protein.usedAmount = Str("1.50")
  /\ usagePercent = Quotient(0, 1)

\* C5: isLow is true exactly when currentStock is strictly less than 20% of
\* allocatedAmount (exactly 20% is not low); it depends only on currentStock
\* and allocatedAmount, not on usedAmount.
C5_LowBelowTwentyPercent ==
  rendered =>
    /\ isLow <=> 5 * ToNumber(protein.currentStock).c < ToNumber(protein.allocatedAmount).c
    /\ \A other \in ProteinRecords :
         /\ other.currentStock = protein.currentStock
         /\ other.allocatedAmount = protein.allocatedAmount
         => computeIsLow(other) = isLow

\* C6: the distribution has one bucket for each of 5,4,3,2,1 holding the
\* number of reviews with that rating; for a non-empty list the percentages
\* sum to 100 (the counts sum to the number of reviews), for an empty list
\* every count and percentage is 0.
C6_DistributionCoversReviews ==
  \A t \in TruckIds :
    LET list == getReviewsByTruckId(t)
        dist == ratingDistribution(list)
        countAt(k) == dist[k].count
        numAt(k) == dist[k].percentage.num
    IN  /\ Len(dist) = 5
        /\ {dist[k].rating : k \in 1..Len(dist)} = 1..5
        /\ \A k \in 1..Len(dist) :
             dist[k].count =
               Cardinality({i \in 1..Len(list) : list[i].rating = dist[k].rating})
        /\ Len(list) > 0 =>
             /\ SumOverSet(countAt, 1..Len(dist)) = Len(list)
             /\ \A k \in 1..Len(dist) : dist[k].percentage.den = Len(list)
             /\ SumOverSet(numAt, 1..Len(dist)) = 100 * Len(list)
        /\ Len(list) = 0 =>
             \A k \in 1..Len(dist) : dist[k].count = 0 /\ dist[k].percentage.num = 0

\* C7: every stored review has a rating between 1 and 5; a request with a
\* rating outside 1..5 is rejected and stores nothing.
C7_StoredRatingsInRange ==
  \A i \in 1..Len(reviews) : reviews[i].rating \in 1..5

\* rows of locations that belong to truck t and are active
ActiveOf(t) ==
  {i \in 1..Len(locations) :
     locations[i].truckId = t /\ locations[i].isActive.t = "bool"
     /\ locations[i].isActive.v}

\* C10: activeLocations is the number of stored locations of the truck whose
\* isActive is true; rows with isActive false or unset and rows of other
\* trucks are never counted.
C10_ActiveLocationsCount ==
  \A t \in TruckIds :
    /\ getDashboardStats(t).activeLocations = Cardinality(ActiveOf(t))
    /\ getDashboardStats(t).activeLocations + Cardinality(
         {i \in 1..Len(locations) :
            \/ locations[i].truckId # t
            \/ locations[i].isActive = Null
            \/ locations[i].isActive = Bool(FALSE)}) = Len(locations)

\* one active location is counted next to an unset one and another truck's
C10_Witness ==
  \E t \in TruckIds : \E i, j, k \in 1..Len(locations) :
    /\ locations[i].truckId = t /\ locations[i].isActive = Bool(TRUE)
    /\ locations[j].truckId = t /\ locations[j].isActive = Null
    /\ locations[k].truckId # t /\ locations[k].isActive = Bool(TRUE)
    /\ getDashboardStats(t).activeLocations = 1

RECURSIVE RenderedLines(_)
\* "<quantity>x <name>" of each order line, in order, separated by ", "
RenderedLines(lines) ==
  IF lines = <<>> THEN ""
  ELSE LET line == Head(lines)
           text == ToString(line.v[2][2].v) \o "x " \o line.v[1][2].v
       IN  IF Len(lines) = 1 THEN text ELSE text \o ", " \o RenderedLines(Tail(lines))

\* C8: a string that is not valid JSON is rendered as "Invalid order data";
\* formatOrderItems returns it and raises nothing.
C8_InvalidJsonGivesSentinel ==
  (rendered /\ items.t = "str" /\ items.v \in InvalidJsonTexts)
    => formatted = Returned("Invalid order data")

C8_Witness ==
  /\ rendered
  /\ items = Str("not json")
  /\ formatted = Returned("Invalid order data")

C11_OrderListComplete ==
  \A t \in TruckIds :
    LET list == getOrdersByTruckId(t)
        listed == {list[j].id : j \in 1..Len(list)}
    IN  \A i \in 1..Len(orders) : orders[i].truckId = t => orders[i].id \in listed

\* C12: for every stored order, whatever its status, and every status value,
\* the PUT request carrying that status is answered 200 and stores it, the
\* rest of the table unchanged: also from completed or cancelled to pending.
C12_AnyStatusTransition ==
  \A i \in 1..Len(orders) : \A st \in OrderStatuses :
    LET put == putOrder(orders[i].id, [NoOrderColumns EXCEPT !.status = Str(st)])
    IN  /\ put.res = 200
        /\ put.orders = [orders EXCEPT ![i].status = st]

\* after an accepted request, a completed order with a positive amount whose
\* move back to pending lowers todaySales
C12_Witness ==
  /\ res = 200
  /\ \E i \in 1..Len(orders) :
       /\ orders[i].status = "completed"
       /\ Cents(orders[i].totalAmount) > 0
       /\ ENABLED (/\ PutOrderWith(orders[i].id,
                                    [NoOrderColumns EXCEPT !.status = Str("pending")])
                   /\ orders'[i].status = "pending"
                   /\ getDashboardStats(orders[i].truckId)'.todaySales
                        < getDashboardStats(orders[i].truckId).todaySales)

\* C13: every stored order has a totalAmount of at least 0.
C13_TotalAmountNonNegative ==
  \A i \in 1..Len(orders) : Cents(orders[i].totalAmount) >= 0



\* C14: the PUT that toggles one location's isActive is answered 200 and
\* changes that location's isActive only: its other fields and every other
\* location, the truck's other active locations included, stay as they are.
C14_ToggleChangesOneLocation ==
  \A i \in 1..Len(locations) :
    LET put == putLocation(locations[i].id, toggleActive(locations[i]))
    IN  /\ put.res = 200
        /\ put.locations =
             [locations EXCEPT ![i].isActive = Bool(locations[i].isActive # Bool(TRUE))]

\* two locations of one truck are active at once, and toggling a third one
\* of that truck on leaves both active
C14_Witness ==
  /\ res = 200
  /\ \E i, j, k \in 1..Len(locations) :
       /\ i # j /\ i # k /\ j # k
       /\ locations[i].truckId = locations[j].truckId
       /\ locations[k].truckId = locations[i].truckId
       /\ locations[i].isActive = Bool(TRUE)
       /\ locations[j].isActive = Bool(TRUE)
       /\ locations[k].isActive # Bool(TRUE)
       /\ putLocation(locations[k].id, toggleActive(locations[k])).locations[i].isActive
            = Bool(TRUE)

\* C15: a read answered from the cache is never answered from an entry that
\* was filled before a mutation of its resource and truck succeeded: the
\* mutation's onSuccess has invalidated the entry before the read.
C15_NoOutdatedCacheHit ==
  /\ served.hit => ~served.outdated
  /\ ~pending.busy => \A k \in QueryKeys : cache[k].valid => ~cache[k].outdated

\* after a successful mutation of the locations, a read has fetched the new
\* list and the next read was answered from the cache with that list
C15_Witness ==
  /\ served.hit
  /\ served.key = <<"/api/locations", foodTruck>>
  /\ ~pending.busy
  /\ issued > 0
  /\ served.data # <<>>
  /\ served.data = getLocationsByTruckId(foodTruck)



RECURSIVE WithoutLeadingSlashes(_)
WithoutLeadingSlashes(s) ==
  IF Len(s) >= 1 /\ Head(s) = "/" THEN WithoutLeadingSlashes(Tail(s)) ELSE s

RECURSIVE WithoutTrailingSlashes(_)
WithoutTrailingSlashes(s) ==
  IF Len(s) >= 1 /\ SubSeq(s, Len(s), Len(s)) = "/"
  THEN WithoutTrailingSlashes(SubSeq(s, 1, Len(s) - 1))
  ELSE s

\* at most one slash at the start (at the end) of s
AtMostOneLeadingSlash(s) == Len(s) < 2 \/ SubSeq(s, 1, 2) # "//"

AtMostOneTrailingSlash(s) == Len(s) < 2 \/ SubSeq(s, Len(s) - 1, Len(s)) # "//"

\* C17: with VITE_API_BASE_URL empty or not set, getApiUrl(endpoint) is the
\* relative URL: "/" followed by the endpoint without its leading slash.
C17_RelativeUrlWhenUnset ==
  (apiCall.called /\ ~Truthy(viteApiBaseUrl))
    => apiCall.url = "/" \o (IF startsWithSlash(apiCall.endpoint)
                             THEN sliceFirst(apiCall.endpoint)
                             ELSE apiCall.endpoint)

\* C18: with a base URL configured, getApiUrl(endpoint) is the base without
\* slash at its end, one "/", and the endpoint without slash at its start,
\* for a base that ends with at most one slash and an endpoint that starts
\* with at most one.
C18_JoinedByOneSlash ==
  (/\ apiCall.called
   /\ Truthy(viteApiBaseUrl)
   /\ AtMostOneTrailingSlash(viteApiBaseUrl.v)
   /\ AtMostOneLeadingSlash(apiCall.endpoint))
    => apiCall.url = WithoutTrailingSlashes(viteApiBaseUrl.v) \o "/"
                       \o WithoutLeadingSlashes(apiCall.endpoint)

\* getApiUrl was called with an endpoint that starts with a slash under a
\* base URL that ends with one
C18_Witness ==
  /\ apiCall.called
  /\ viteApiBaseUrl = Str("https://api.example.com/")
  /\ apiCall.endpoint = "/api/food-truck"
  /\ apiCall.url = "https://api.example.com/api/food-truck"

\* C19: a request answered with 400, 500 or 501 has stored nothing; in
\* particular a POST /api/food-truck refused for its body leaves no
\* organization created.
C19_ErrorAnswerStoresNothing ==
  lastDone.status \in {400, 500, 501} => ~lastDone.wrote

\* C20: every user owns at most one organization.
C20_OneOrganizationPerOwner ==
  \A userId \in Users :
    Cardinality({i \in DOMAIN organizations : organizations[i].ownerId = userId}) <= 1

\* C21: the four values a finished getDashboardStats call returns are the
\* stats of one state the store was in at some instant during the call.
C21_StatsOfOneState ==
  statsCall.pc = "done" =>
    [todaySales |-> statsCall.todaySales, ordersToday |-> statsCall.ordersToday,
     averageRating |-> statsCall.averageRating,
     activeLocations |-> statsCall.activeLocations] \in seen

\* C22: a request without an authenticated session creates, updates or
\* deletes no stored record.
C22_NoWriteWithoutSession ==
  [][caller' = NoSession =>
       /\ orders' = orders /\ reviews' = reviews /\ locations' = locations
       /\ organizations' = organizations /\ foodTrucks' = foodTrucks]_vars

\* the rows of a table
Rows(table) == {table[i] : i \in DOMAIN table}

\* the trucks of the organizations a user owns, and the trucks the user is
\* assigned to as a team member
TrucksOfUser(userId) ==
  {t.id : t \in {x \in Rows(foodTrucks) :
                   \E o \in Rows(organizations) :
                     o.id = x.organizationId /\ o.ownerId = userId}}
    \cup {m.truckId : m \in {x \in Rows(teamMembers) : x.userId = userId /\ x.truckId # 0}}

\* C23: a request of an authenticated user creates, changes or deletes only
\* locations of that user's trucks.
C23_OnlyOwnTrucksRecords ==
  [][caller' \in Users =>
       \A row \in (Rows(locations) \ Rows(locations')) \cup (Rows(locations') \ Rows(locations)) :
         row.truckId \in TrucksOfUser(caller')]_vars

\* C24: the owner of a created organization, the organization of a created
\* truck and the truck of a created protein inventory record are those of
\* the user who sent the request, whatever the body says.
C24_OwnershipFromIdentity ==
  [][/\ organizations' # organizations =>
          organizations'[Len(organizations')].ownerId = caller'
     /\ foodTrucks' # foodTrucks =>
          \E o \in Rows(organizations') :
             o.id = foodTrucks'[Len(foodTrucks')].organizationId /\ o.ownerId = caller'
     /\ proteinInventory' # proteinInventory =>
          proteinInventory'[Len(proteinInventory')].truckId \in TrucksOfUser(caller')]_vars

\* u1's POST /api/organization whose body names u2 as owner has created an
\* organization owned by u1
C24_Witness ==
  /\ caller = "u1"
  /\ lastDone = [status |-> 200, wrote |-> TRUE, claims |-> 2]
  /\ foodTrucks = <<>>
  /\ \A slot \in Slots : inflight[slot].pc = "idle"
  /\ organizations # <<>>
  /\ organizations[Len(organizations)].ownerId = "u1"

\* the organizations a user owns, the trucks of an organization, and the
\* team-member rows of a user
OwnedOrganizations(userId) == {o \in Rows(organizations) : o.ownerId = userId}

TrucksOfOrganization(o) == {t.id : t \in {x \in Rows(foodTrucks) : x.organizationId = o.id}}

Assignments(userId) == {m \in Rows(teamMembers) : m.userId = userId}

\* C25: for a user who owns an organization getFoodTruckByUserId gives a
\* truck of that organization, undefined when it has none, whatever the
\* team-member rows say; for any other user it gives the truck of the
\* user's team-member row, undefined when the row names no truck; and
\* undefined for a user with neither.
C25_TruckLookupPrecedence ==
  \A userId \in Users :
    getFoodTruckByUserId(userId) =
      IF OwnedOrganizations(userId) # {}
      THEN UNION {IF TrucksOfOrganization(o) = {} THEN {0} ELSE TrucksOfOrganization(o) :
                    o \in OwnedOrganizations(userId)}
      ELSE IF Assignments(userId) # {}
           THEN {IF m.truckId # 0 /\ \E t \in Rows(foodTrucks) : t.id = m.truckId
                 THEN m.truckId ELSE 0 : m \in Assignments(userId)}
           ELSE {0}

\* a user who owns an organization without trucks and is assigned to a truck
\* as a team member has asked for the truck and gets undefined
C25_Witness ==
  /\ res = 200
  /\ OwnedOrganizations(caller) # {}
  /\ \A o \in OwnedOrganizations(caller) : TrucksOfOrganization(o) = {}
  /\ \E m \in Assignments(caller) : \E t \in Rows(foodTrucks) : t.id = m.truckId
  /\ getFoodTruckByUserId(caller) = {0}

\* C26: whatever table inventory_items holds, no legacy inventory request
\* changes a stored row, the list GET /api/inventory/:truckId answers with is
\* empty, the write requests are answered 501, and the low-stock list the
\* Dashboard computes from the answer is empty.
C26_LegacyInventoryInert ==
  [][/\ inventoryItems' = inventoryItems
     /\ <<orders, reviews, locations, organizations, foodTrucks, teamMembers,
          proteinInventory>>' =
        <<orders, reviews, locations, organizations, foodTrucks, teamMembers, proteinInventory>>
     /\ inventory' = <<>>
     /\ lowStockItems' = <<>>
     /\ lastDone' # lastDone => lastDone' = [status |-> 501, wrote |-> FALSE, claims |-> 0]
     /\ res' \in {res, 200, 501}]_vars

\* inventory_items holds an item below its threshold for each truck, the
\* list has been fetched and rendered, and no low-stock item is shown
C26_Witness ==
  /\ \A truckId \in TruckIds : computeLowStock(getInventoryByTruckId(truckId)) # <<>>
  /\ res = 200
  /\ rendered
  /\ lowStockItems = <<>>

\* C27: for every items value formatOrderItems returns a string and raises
\* nothing.
C27_FormatOrderItemsTotal ==
  rendered => ~formatted.thrown

\* the statistics of the user's truck are cached and show the number of
\* active locations the store holds
StatsCacheFresh ==
  LET key == <<"/api/dashboard-stats", foodTruck>>
  IN  /\ cache[key].valid
      /\ cache[key].data.activeLocations = getDashboardStats(foodTruck).activeLocations

\* C28: once the response of a location mutation has been handled, the
\* Dashboard's cached statistics come to show the store's number of active
\* locations.
C28_StatsFollowLocations ==
  (~pending.busy /\ issued > 0) ~> StatsCacheFresh

\* C29: when no timer is pending and no lookup is in flight, the suggestions
\* are those found for the text typed last, or none (none when that text has
\* fewer than three characters).
C29_SuggestionsOfLastText ==
  (~autocomplete.searchTimeout.set /\ autocomplete.lookups = <<>>) =>
     \/ autocomplete.addressSuggestions = NoSuggestions
     \/ /\ Len(autocomplete.typed) >= 3
        /\ autocomplete.addressSuggestions = SuggestionsFor(autocomplete.typed)

\* C30: while isLoading stays true the stage never goes back and onComplete
\* is called at most once, also when the component is rendered with a new
\* onComplete; while isLoading is false no timer is pending, the stage is 0
\* and onComplete is not called.
C30_StagesForwardCompleteOnce ==
  [][/\ (animation.isLoading /\ animation'.isLoading) => animation'.stage >= animation.stage
     /\ animation'.completed <= 1
     /\ ~animation'.isLoading =>
          /\ animation'.stage = 0
          /\ animation'.timers = {}
          /\ animation'.completed = animation.completed]_vars

====
